---- MODULE Spec2Model ----
(***************************************************************************)
(* Stripe -> Enhance integration: the webhook intake (POST), its three     *)
(* event handlers, the idempotency ledger (webhook_logs), the error        *)
(* classifier and retry executor (ErrorHandler) and SubscriptionManager:   *)
(* syncSingleSubscription, the sweep syncAllSubscriptions and changePlan.  *)
(*                                                                         *)
(* The specifications share the definitions:                               *)
(*   SpecRetry  one call of ErrorHandler.withRetry on an operation that    *)
(*              fails k times and then succeeds;                           *)
(*   Spec       two concurrent deliveries to the webhook intake, every     *)
(*              await of the code being one step;                          *)
(*   SpecRecon  one delivery of a subscription event and one run of        *)
(*              syncSingleSubscription against an existing subscription;   *)
(*   SpecSweep  one run of syncAllSubscriptions over a store of            *)
(*              subscriptions;                                             *)
(*   SpecPlan   one call of changePlan;                                    *)
(*   SpecPlanSweep  one call of changePlan followed by one run of          *)
(*              syncAllSubscriptions;                                      *)
(*   SpecAdmin  one request to an admin endpoint: the manual sync trigger, *)
(*              the customer lookup or the customer update;                *)
(*   SpecFrame  one delivery to the webhook intake beside one call of      *)
(*              syncSingleSubscription, syncAllSubscriptions or changePlan;*)
(*   SpecResume two runs of syncAllSubscriptions in a row, the first one   *)
(*              returning or being cut off;                                *)
(*   SpecAlert  handleWebhookError on any error a handler may throw;       *)
(*   SpecRace   two concurrent deliveries of subscription-updated events   *)
(*              for one subscription.                                      *)
(***************************************************************************)
EXTENDS Integers, Sequences, FiniteSets, TLC

VARIABLES
    retry,          \* the frame of one ErrorHandler.withRetry call (SpecRetry)
    webhook_logs,   \* table webhook_logs: sequence of rows, in insertion order
    customers,      \* table customers
    subscriptions,  \* table subscriptions
    enhance,        \* the provisioning system: its customers and subscriptions
    req,            \* per delivery: the frame of one POST invocation
    faults,         \* number of store / API failures injected so far
    sync            \* the frame of one SubscriptionManager call (SpecRecon,
                    \* SpecSweep, SpecPlan) and of the admin request around it

vars == <<retry, webhook_logs, customers, subscriptions, enhance, req, faults, sync>>

----------------------------------------------------------------------------
\* Bounds of the model.

\* largest k of an operation that "fails k times then succeeds" (SpecRetry)
MaxK == 3
\* largest maxRetries handed to withRetry in SpecRetry
MaxAttemptsBound == 4
\* store / API failures injected in one behaviour of Spec and SpecRecon
MaxFaults == 3
\* subscriptions in the store when syncAllSubscriptions runs (SpecSweep)
MaxSweep == 2

----------------------------------------------------------------------------
\* Error classification (ErrorCategory, ErrorSeverity, AppError, categorizeError).

VALIDATION == "validation"
AUTHENTICATION == "authentication"
EXTERNAL_API == "external_api"
DATABASE == "database"
BUSINESS_LOGIC == "business_logic"
SYSTEM == "system"

ErrorCategory == {VALIDATION, AUTHENTICATION, EXTERNAL_API, DATABASE, BUSINESS_LOGIC, SYSTEM}

ErrorSeverity == {"low", "medium", "high", "critical"}

\* Words an error message may contain: the twelve keywords categorizeError
\* looks for (two of them also in upper case) and one word it does not know.
MessageWords ==
    {"fetch", "network", "timeout", "database", "sql", "connection",
     "unauthorized", "forbidden", "token", "validation", "invalid", "required",
     "TIMEOUT", "Connection", "duplicate key"}

\* String.prototype.toLowerCase on one word of a message.
ToLowerCase(w) ==
    CASE w = "TIMEOUT" -> "timeout"
      [] w = "Connection" -> "connection"
      [] OTHER -> w

\* error.message.toLowerCase(), a message being the set of words it contains.
LowerCased(message) == {ToLowerCase(w) : w \in message}

\* message.includes(word)
Includes(message, word) == word \in message

\* new Error(message): no classification of its own.
PlainError(message) ==
    [app |-> FALSE, message |-> message, category |-> "none",
     severity |-> "none", retryable |-> FALSE]

\* new AppError(message, category, severity, retryable)
AppError(message, category, severity, retryable) ==
    [app |-> TRUE, message |-> message, category |-> category,
     severity |-> severity, retryable |-> retryable]

\* Mutant of categorizeError: the authentication group is marked retryable.
categorizeErrorAuthRetryable(error) ==
    IF error.app THEN error
    ELSE LET message == LowerCased(error.message) IN
         IF Includes(message, "fetch") \/ Includes(message, "network") \/ Includes(message, "timeout")
         THEN AppError(error.message, EXTERNAL_API, "high", TRUE)
         ELSE IF Includes(message, "database") \/ Includes(message, "sql") \/ Includes(message, "connection")
         THEN AppError(error.message, DATABASE, "high", TRUE)
         ELSE IF Includes(message, "unauthorized") \/ Includes(message, "forbidden") \/ Includes(message, "token")
         THEN AppError(error.message, AUTHENTICATION, "medium", TRUE)
         ELSE IF Includes(message, "validation") \/ Includes(message, "invalid") \/ Includes(message, "required")
         THEN AppError(error.message, VALIDATION, "low", FALSE)
         ELSE AppError(error.message, SYSTEM, "medium", FALSE)

\* Mutant of categorizeError: the database group is tested before the network group.
categorizeErrorDatabaseFirst(error) ==
    IF error.app THEN error
    ELSE LET message == LowerCased(error.message) IN
         IF Includes(message, "database") \/ Includes(message, "sql") \/ Includes(message, "connection")
         THEN AppError(error.message, DATABASE, "high", TRUE)
         ELSE IF Includes(message, "fetch") \/ Includes(message, "network") \/ Includes(message, "timeout")
         THEN AppError(error.message, EXTERNAL_API, "high", TRUE)
         ELSE IF Includes(message, "unauthorized") \/ Includes(message, "forbidden") \/ Includes(message, "token")
         THEN AppError(error.message, AUTHENTICATION, "medium", FALSE)
         ELSE IF Includes(message, "validation") \/ Includes(message, "invalid") \/ Includes(message, "required")
         THEN AppError(error.message, VALIDATION, "low", FALSE)
         ELSE AppError(error.message, SYSTEM, "medium", FALSE)

\* Mutant of categorizeError: an AppError is classified by its message like
\* any other error.
categorizeErrorReclassifies(error) ==
    LET message == LowerCased(error.message) IN
    IF Includes(message, "fetch") \/ Includes(message, "network") \/ Includes(message, "timeout")
    THEN AppError(error.message, EXTERNAL_API, "high", TRUE)
    ELSE IF Includes(message, "database") \/ Includes(message, "sql") \/ Includes(message, "connection")
    THEN AppError(error.message, DATABASE, "high", TRUE)
    ELSE IF Includes(message, "unauthorized") \/ Includes(message, "forbidden") \/ Includes(message, "token")
    THEN AppError(error.message, AUTHENTICATION, "medium", FALSE)
    ELSE IF Includes(message, "validation") \/ Includes(message, "invalid") \/ Includes(message, "required")
    THEN AppError(error.message, VALIDATION, "low", FALSE)
    ELSE AppError(error.message, SYSTEM, "medium", FALSE)

\* ErrorHandler.categorizeError (the context argument only annotates the error).
categorizeError(error) ==
    IF error.app THEN error
    ELSE LET message == LowerCased(error.message) IN
         IF Includes(message, "fetch") \/ Includes(message, "network") \/ Includes(message, "timeout")
         THEN AppError(error.message, EXTERNAL_API, "high", TRUE)
         ELSE IF Includes(message, "database") \/ Includes(message, "sql") \/ Includes(message, "connection")
         THEN AppError(error.message, DATABASE, "high", TRUE)
         ELSE IF Includes(message, "unauthorized") \/ Includes(message, "forbidden") \/ Includes(message, "token")
         THEN AppError(error.message, AUTHENTICATION, "medium", FALSE)
         ELSE IF Includes(message, "validation") \/ Includes(message, "invalid") \/ Includes(message, "required")
         THEN AppError(error.message, VALIDATION, "low", FALSE)
         ELSE AppError(error.message, SYSTEM, "medium", FALSE)

\* Messages of the errors an operation under withRetry throws: at most two words.
Messages == {m \in SUBSET MessageWords : Cardinality(m) <= 1} \cup
            {{"invalid", "token"}, {"timeout", "required"}, {"sql", "forbidden"},
             {"network", "database"}}

\* The errors an operation may throw: any plain Error, an AppError built the way
\* the sources build one (three arguments, retryable left at its default false),
\* or an AppError categorizeError built (handleApiError rethrows those).
ThrownErrors ==
    {PlainError(m) : m \in Messages} \cup
    {AppError(m, c, s, FALSE) :
        m \in {{}, {"timeout"}, {"connection"}}, c \in ErrorCategory, s \in ErrorSeverity} \cup
    {categorizeError(PlainError(m)) : m \in Messages}

----------------------------------------------------------------------------
\* ErrorHandler.withRetry.

\* Upper end (exclusive) of the jitter Math.random() * 1000.
JitterRange == 1000

\* Values of Math.random() * 1000 the model draws.
Jitters == {0, 500, JitterRange - 1}

\* baseDelay arguments of the calls in the sources.
BaseDelays == {1000, 2000}

\* Mutant of BackoffBase: the exponent is the attempt, not attempt - 1.
BackoffBaseOffByOne(baseDelay, attempt) == baseDelay * 2 ^ attempt

\* baseDelay * Math.pow(2, attempt - 1)
BackoffBase(baseDelay, attempt) == baseDelay * 2 ^ (attempt - 1)

\* Mutant of RetryVerdict: the loop gives up one attempt early.
RetryVerdictEarlyBreak(error, attempt, maxRetries) ==
    IF ~categorizeError(error).retryable THEN "throw"
    ELSE IF attempt >= maxRetries - 1 THEN "break"
    ELSE "retry"

\* The catch block of withRetry for the error of attempt `attempt`:
\* rethrow at once, leave the loop, or sleep and try again.
RetryVerdict(error, attempt, maxRetries) ==
    IF ~categorizeError(error).retryable THEN "throw"
    ELSE IF attempt = maxRetries THEN "break"
    ELSE "retry"

NoError == PlainError({"<none>"})

\* withRetry is entered: attempt = 1, nothing invoked yet.
RetryInit ==
    \E k \in 0..MaxK, m \in 1..MaxAttemptsBound, b \in BaseDelays :
        retry = [pc |-> "call", k |-> k, maxRetries |-> m, baseDelay |-> b,
                 attempt |-> 1, calls |-> 0, failures |-> 0, lastError |-> NoError,
                 delays |-> <<>>, result |-> "running", thrown |-> NoError,
                 sawNonRetryable |-> FALSE]

RetryIdle ==
    retry = [pc |-> "off", k |-> 0, maxRetries |-> 1, baseDelay |-> 1000,
             attempt |-> 1, calls |-> 0, failures |-> 0, lastError |-> NoError,
             delays |-> <<>>, result |-> "running", thrown |-> NoError,
             sawNonRetryable |-> FALSE]

NonRetry == <<webhook_logs, customers, subscriptions, enhance, req, faults, sync>>

\* `return await operation()`: the operation fails while it has failed fewer
\* than k times, with any error it may throw, and succeeds after that.
RetryInvoke ==
    /\ retry.pc = "call"
    /\ \/ /\ retry.failures < retry.k
          /\ \E e \in ThrownErrors :
                retry' = [retry EXCEPT !.pc = "caught", !.calls = @ + 1,
                                       !.failures = @ + 1, !.lastError = e,
                                       !.sawNonRetryable = @ \/ ~categorizeError(e).retryable]
       \/ /\ retry.failures = retry.k
          /\ retry' = [retry EXCEPT !.pc = "done", !.calls = @ + 1, !.result = "ok"]
    /\ UNCHANGED NonRetry

\* The catch block: classify, rethrow / break / compute the delay and sleep.
RetryCatch ==
    /\ retry.pc = "caught"
    /\ LET v == RetryVerdict(retry.lastError, retry.attempt, retry.maxRetries) IN
       \/ /\ v \in {"throw", "break"}
          /\ retry' = [retry EXCEPT !.pc = "done", !.result = "fail",
                                    !.thrown = categorizeError(retry.lastError)]
       \/ /\ v = "retry"
          /\ \E j \in Jitters :
                retry' = [retry EXCEPT !.pc = "sleep",
                              !.delays = Append(@, BackoffBase(retry.baseDelay, retry.attempt) + j)]
    /\ UNCHANGED NonRetry

\* The timer fires: attempt++ and the loop body runs again.
RetryWake ==
    /\ retry.pc = "sleep"
    /\ retry' = [retry EXCEPT !.pc = "call", !.attempt = @ + 1]
    /\ UNCHANGED NonRetry

----------------------------------------------------------------------------
\* The store (scripts/001-initial-schema.sql, DatabaseService).

\* webhook_logs.error_message is NULL
NULL == <<>>

NoRow == [id |-> 0]

\* plan_mappings seed rows for provider 'stripe'
PlanMappings ==
    {[billing_plan_id |-> "price_basic_monthly", enhance_plan_id |-> "basic-hosting-plan"],
     [billing_plan_id |-> "price_pro_monthly", enhance_plan_id |-> "pro-hosting-plan"],
     [billing_plan_id |-> "price_enterprise_monthly", enhance_plan_id |-> "enterprise-hosting-plan"]}

\* DatabaseService.findPlanMapping("stripe", billingPlanId): the rows found
findPlanMapping(billingPlanId) ==
    {m \in PlanMappings : m.billing_plan_id = billingPlanId}

Rows(table) == {table[i] : i \in 1..Len(table)}

\* Mutant of webhookExists: only rows that ended in success count as processed.
webhookExistsSuccessOnly(logs, idempotencyKey) ==
    \E r \in Rows(logs) : r.idempotency_key = idempotencyKey /\ r.status = "success"

\* DatabaseService.webhookExists: SELECT 1 ... WHERE idempotency_key = key
webhookExists(logs, idempotencyKey) ==
    \E r \in Rows(logs) : r.idempotency_key = idempotencyKey

\* Mutant of IdempotencyKeyTaken: the column carries no UNIQUE constraint.
IdempotencyKeyNotUnique(logs, idempotencyKey) == FALSE

\* webhook_logs.idempotency_key TEXT NOT NULL UNIQUE: the INSERT is rejected
IdempotencyKeyTaken(logs, idempotencyKey) ==
    \E r \in Rows(logs) : r.idempotency_key = idempotencyKey

\* DatabaseService.logWebhook: the row the INSERT adds
logWebhook(logs, data) ==
    Append(logs, [id |-> Len(logs) + 1, idempotency_key |-> data.idempotency_key,
                  event_type |-> data.event_type, status |-> data.status,
                  error_message |-> NULL])

\* Mutant of updateWebhookStatus: the UPDATE has lost its WHERE clause.
updateWebhookStatusNoWhere(logs, idempotencyKey, status, errorMessage) ==
    [i \in 1..Len(logs) |-> [logs[i] EXCEPT !.status = status, !.error_message = errorMessage]]

\* DatabaseService.updateWebhookStatus: UPDATE ... SET status, error_message WHERE key
updateWebhookStatus(logs, idempotencyKey, status, errorMessage) ==
    [i \in 1..Len(logs) |->
        IF logs[i].idempotency_key = idempotencyKey
        THEN [logs[i] EXCEPT !.status = status, !.error_message = errorMessage]
        ELSE logs[i]]

\* DatabaseService.findCustomerByStripeId: result[0] || null
findCustomerByStripeId(table, stripeCustomerId) ==
    IF \E r \in Rows(table) : r.stripe_customer_id = stripeCustomerId
    THEN CHOOSE r \in Rows(table) : r.stripe_customer_id = stripeCustomerId
    ELSE NoRow

\* customers: enhance_customer_id, stripe_customer_id and email are UNIQUE
CustomerConflict(table, data) ==
    \E r \in Rows(table) :
        \/ r.enhance_customer_id = data.enhance_customer_id
        \/ r.stripe_customer_id = data.stripe_customer_id
        \/ r.email = data.email

\* DatabaseService.findCustomerByEmail: result[0] || null
findCustomerByEmail(table, email) ==
    IF \E r \in Rows(table) : r.email = email
    THEN CHOOSE r \in Rows(table) : r.email = email
    ELSE NoRow

\* DatabaseService.updateCustomer: UPDATE ... SET email = COALESCE(data.email, email) WHERE id
updateCustomer(table, id, data) ==
    [i \in 1..Len(table) |->
        IF table[i].id = id /\ "email" \in DOMAIN data
        THEN [table[i] EXCEPT !.email = data.email]
        ELSE table[i]]

\* DatabaseService.getCustomerSubscriptions: the customer's rows, ORDER BY
\* created_at DESC (the latest insertion first).
getCustomerSubscriptions(table, customerId) ==
    LET listed == {i \in 1..Len(table) : table[i].customer_id = customerId}
    IN [k \in 1..Cardinality(listed) |->
           table[CHOOSE i \in listed : Cardinality({j \in listed : j > i}) = k - 1]]

\* DatabaseService.createCustomer: INSERT ... RETURNING *
createCustomer(table, data) ==
    Append(table, [id |-> Len(table) + 1, enhance_customer_id |-> data.enhance_customer_id,
                   stripe_customer_id |-> data.stripe_customer_id, email |-> data.email])

\* DatabaseService.findSubscriptionByStripeId: result[0] || null
findSubscriptionByStripeId(table, stripeSubscriptionId) ==
    IF \E r \in Rows(table) : r.stripe_subscription_id = stripeSubscriptionId
    THEN CHOOSE r \in Rows(table) : r.stripe_subscription_id = stripeSubscriptionId
    ELSE NoRow

\* subscriptions: enhance_subscription_id and stripe_subscription_id are UNIQUE
SubscriptionConflict(table, data) ==
    \E r \in Rows(table) :
        \/ r.enhance_subscription_id = data.enhance_subscription_id
        \/ r.stripe_subscription_id = data.stripe_subscription_id

\* Mutant of createSubscription: the INSERT binds the plan id and the payments
\* subscription id to each other's column.
createSubscriptionColumnsSwapped(table, data) ==
    Append(table, [id |-> Len(table) + 1, customer_id |-> data.customer_id,
                   enhance_subscription_id |-> data.enhance_subscription_id,
                   stripe_subscription_id |-> data.enhance_plan_id,
                   enhance_plan_id |-> data.stripe_subscription_id, status |-> data.status])

\* DatabaseService.createSubscription: INSERT ... RETURNING *
createSubscription(table, data) ==
    Append(table, [id |-> Len(table) + 1, customer_id |-> data.customer_id,
                   enhance_subscription_id |-> data.enhance_subscription_id,
                   stripe_subscription_id |-> data.stripe_subscription_id,
                   enhance_plan_id |-> data.enhance_plan_id, status |-> data.status])

\* DatabaseService.updateSubscriptionStatus: UPDATE ... SET status WHERE id
updateSubscriptionStatus(table, id, status) ==
    [i \in 1..Len(table) |->
        IF table[i].id = id THEN [table[i] EXCEPT !.status = status] ELSE table[i]]

\* The error a rejected INSERT raises: Postgres' "duplicate key value violates
\* unique constraint ...", which holds none of the classifier's keywords.
UniqueViolation == PlainError({"duplicate key"})

----------------------------------------------------------------------------
\* The provisioning system behind EnhanceService: subscriptions by id, and the
\* number of customers created so far (ids are handed out in order).

SubscriptionStatus == {"active", "suspended", "canceled"}

\* EnhanceService.suspendSubscription / reactivateSubscription / cancelSubscription
\* (POST .../suspend, POST .../reactivate, DELETE ...): the status afterwards.
EnhanceApply(subs, subscriptionId, action) ==
    [i \in 1..Len(subs) |->
        IF i = subscriptionId
        THEN [subs[i] EXCEPT !.status = CASE action = "reactivate" -> "active"
                                          [] action = "suspend" -> "suspended"
                                          [] OTHER -> "canceled"]
        ELSE subs[i]]

----------------------------------------------------------------------------
\* Events and their extraction (StripeService).

CHECKOUT == "checkout.session.completed"
SUB_CREATED == "customer.subscription.created"
SUB_UPDATED == "customer.subscription.updated"
SUB_DELETED == "customer.subscription.deleted"

\* A verified event: its id and type, and the fields of data.object the
\* extraction reads.
StripeEvent(id, type, customer, subscription, price, status) ==
    [id |-> id, type |-> type, customer |-> customer, subscription |-> subscription,
     price |-> price, status |-> status, email |-> "owner@example.com"]

NoEvent == StripeEvent("", "", "", "", "", "")

\* Subscription statuses of the payments provider.
StripeStatuses ==
    {"active", "past_due", "unpaid", "canceled", "incomplete_expired",
     "incomplete", "trialing", "paused"}

\* StripeService.extractSubscriptionData: the projection, or <<>> for null
extractSubscriptionData(event) ==
    CASE event.type = CHECKOUT ->
            <<[stripeSubscriptionId |-> event.subscription, stripeCustomerId |-> event.customer,
               stripePriceId |-> event.price, status |-> "active"]>>
      [] event.type \in {SUB_CREATED, SUB_UPDATED, SUB_DELETED} ->
            <<[stripeSubscriptionId |-> event.subscription, stripeCustomerId |-> event.customer,
               stripePriceId |-> event.price, status |-> event.status]>>
      [] OTHER -> <<>>

\* StripeService.extractCustomerData: the projection, or <<>> for null
extractCustomerData(event) ==
    CASE event.type = CHECKOUT ->
            <<[stripeCustomerId |-> event.customer, email |-> event.email]>>
      [] event.type \in {SUB_CREATED, SUB_UPDATED, SUB_DELETED} ->
            <<[stripeCustomerId |-> event.customer, email |-> ""]>>
      [] OTHER -> <<>>

\* Events delivered in Spec.
IntakeEvents ==
    {StripeEvent("evt_1", CHECKOUT, "cus_1", "sub_1", "price_pro_monthly", ""),
     StripeEvent("evt_2", SUB_UPDATED, "cus_1", "sub_1", "price_pro_monthly", "past_due"),
     StripeEvent("evt_3", SUB_DELETED, "cus_1", "sub_1", "price_pro_monthly", "canceled"),
     StripeEvent("evt_4", "invoice.paid", "cus_1", "sub_1", "", ""),
     StripeEvent("evt_5", SUB_CREATED, "cus_1", "sub_1", "price_pro_monthly", "past_due")}

\* Events delivered in SpecRace: two updates of sub_1, to active and to
\* past_due, as two events of the provider.
RaceEvents ==
    {StripeEvent("evt_a", SUB_UPDATED, "cus_1", "sub_1", "price_pro_monthly", "active"),
     StripeEvent("evt_b", SUB_UPDATED, "cus_1", "sub_1", "price_pro_monthly", "past_due")}

\* Events delivered in SpecRecon: an update of sub_1 to every provider status,
\* and its deletion.
ReconEvents ==
    {StripeEvent("evt_upd", SUB_UPDATED, "cus_1", "sub_1", "price_pro_monthly", s) :
        s \in StripeStatuses} \cup
    {StripeEvent("evt_del", SUB_DELETED, "cus_1", "sub_1", "price_pro_monthly", "canceled")}

----------------------------------------------------------------------------
\* The status mapping of the two reconciliation entry points.

\* Mutant of UpdatedTarget: unpaid is treated as a cancellation.
UpdatedTargetUnpaidCancels(status) ==
    CASE status = "active" -> [newStatus |-> "active", action |-> "reactivate"]
      [] status = "past_due" -> [newStatus |-> "suspended", action |-> "suspend"]
      [] status \in {"unpaid", "canceled", "incomplete_expired"} ->
            [newStatus |-> "canceled", action |-> "suspend"]
      [] OTHER -> [newStatus |-> "none", action |-> "none"]

\* Mutant of UpdatedTarget: the past_due case calls reactivate.
UpdatedTargetPastDueReactivates(status) ==
    CASE status = "active" -> [newStatus |-> "active", action |-> "reactivate"]
      [] status = "past_due" -> [newStatus |-> "suspended", action |-> "reactivate"]
      [] status = "unpaid" -> [newStatus |-> "suspended", action |-> "suspend"]
      [] status \in {"canceled", "incomplete_expired"} ->
            [newStatus |-> "canceled", action |-> "suspend"]
      [] OTHER -> [newStatus |-> "none", action |-> "none"]

\* handleSubscriptionUpdated, the switch on subscriptionData.status: the new
\* internal status and the EnhanceService call of the case ("none": return).
UpdatedTarget(status) ==
    CASE status = "active" -> [newStatus |-> "active", action |-> "reactivate"]
      [] status \in {"past_due", "unpaid"} -> [newStatus |-> "suspended", action |-> "suspend"]
      [] status \in {"canceled", "incomplete_expired"} ->
            [newStatus |-> "canceled", action |-> "suspend"]
      [] OTHER -> [newStatus |-> "none", action |-> "none"]

\* syncSingleSubscription, the switch on stripeSubscription.status ("none": return)
SyncTarget(status) ==
    CASE status = "active" -> "active"
      [] status \in {"past_due", "unpaid"} -> "suspended"
      [] status \in {"canceled", "incomplete_expired"} -> "canceled"
      [] OTHER -> "none"

\* Mutant of SyncAction: a canceled target suspends, as the event handlers do.
SyncActionCanceledSuspends(targetStatus) ==
    CASE targetStatus = "active" -> "reactivate"
      [] OTHER -> "suspend"

\* syncSingleSubscription, the switch on targetStatus: the EnhanceService call
SyncAction(targetStatus) ==
    CASE targetStatus = "active" -> "reactivate"
      [] targetStatus = "suspended" -> "suspend"
      [] OTHER -> "cancel"

----------------------------------------------------------------------------
\* One POST invocation of the webhook intake.

Deliveries == {"d1", "d2"}

\* maxRetries of the withRetry around logWebhook, and around each handler
LogMaxRetries == 3
HandlerMaxRetries == 3

Effects ==
    {"enhance.createCustomer", "db.createCustomer", "enhance.createSubscription",
     "db.createSubscription", "enhance.action", "db.updateSubscriptionStatus"}

NoResponse ==
    [code |-> 0, received |-> FALSE, retryable |-> FALSE, category |-> "none", stage |-> "none"]

\* The frame of an invocation that has not started. Besides the locals of POST
\* and of its handler it records what the invocation has done so far.
IdleFrame ==
    [pc |-> "idle", event |-> NoEvent, attempt |-> 1, err |-> NoError,
     response |-> NoResponse,
     customer |-> NoRow, enhanceCustomer |-> 0, plan |-> "", enhanceSubscription |-> 0,
     subscription |-> NoRow, newStatus |-> "none",
     rowAtCheck |-> "none", inserted |-> FALSE, dispatched |-> FALSE,
     ledgerWrites |-> 0, effects |-> [x \in Effects |-> 0],
     action |-> "none", written |-> "none", enhanceBefore |-> "none",
     signature |-> "none", handled |-> NoError, alerts |-> 0]

idempotencyKey(event) == <<"stripe", event.id>>

\* Errors an awaited store or API call raises when it fails: one the classifier
\* finds retryable ("connection ..."), one it takes for a validation failure
\* ("... invalid ...", as in the text of a 4xx answer of the provisioning API)
\* and one that holds none of its keywords.
InjectedErrors == {PlainError({"connection"}), PlainError({"invalid"}), PlainError({})}

\* NextResponse.json({received: true, ...})
Received(f, stage) ==
    [f EXCEPT !.pc = "done",
              !.response = [code |-> 200, received |-> TRUE, retryable |-> FALSE,
                            category |-> "none", stage |-> stage]]

\* Mutant of Failed: every failure is answered 500.
FailedAlways500(f, error, stage) ==
    LET appError == categorizeError(error) IN
    [f EXCEPT !.pc = "done", !.err = appError,
              !.response = [code |-> 500,
                            received |-> FALSE, retryable |-> appError.retryable,
                            category |-> appError.category, stage |-> stage]]

\* The outer catch of POST: categorizeError, 400 for validation, else 500.
Failed(f, error, stage) ==
    LET appError == categorizeError(error) IN
    [f EXCEPT !.pc = "done", !.err = appError,
              !.response = [code |-> IF appError.category = VALIDATION THEN 400 ELSE 500,
                            received |-> FALSE, retryable |-> appError.retryable,
                            category |-> appError.category, stage |-> stage]]

\* Mutant of HandlerEntry: the checkout handler starts at the plan lookup.
HandlerEntryCheckoutSkipsCustomer(type) ==
    CASE type = CHECKOUT -> "co_plan"
      [] type = SUB_DELETED -> "del_find"
      [] type = SUB_UPDATED -> "upd_find"
      [] OTHER -> "success"

\* Mutant of HandlerEntry: customer.subscription.created shares the case of
\* customer.subscription.updated.
HandlerEntryCreatedAsUpdated(type) ==
    CASE type = CHECKOUT -> "co_find"
      [] type = SUB_DELETED -> "del_find"
      [] type \in {SUB_CREATED, SUB_UPDATED} -> "upd_find"
      [] OTHER -> "success"

\* Mutant of HandlerEntry: an event type without a case is treated as a
\* processing failure.
HandlerEntryDefaultFails(type) ==
    CASE type = CHECKOUT -> "co_find"
      [] type = SUB_DELETED -> "del_find"
      [] type = SUB_UPDATED -> "upd_find"
      [] OTHER -> "handle_error"

\* The switch of POST on event.type: where the handler starts ("success": default)
HandlerEntry(type) ==
    CASE type = CHECKOUT -> "co_find"
      [] type = SUB_DELETED -> "del_find"
      [] type = SUB_UPDATED -> "upd_find"
      [] OTHER -> "success"

\* withRetry around a handler, once an attempt has thrown `error`: the next
\* attempt starts the handler afresh, or the error reaches POST's inner catch.
HandlerCatch(f, error) ==
    IF RetryVerdict(error, f.attempt, HandlerMaxRetries) = "retry"
    THEN [f EXCEPT !.pc = HandlerEntry(f.event.type), !.attempt = @ + 1,
                   !.customer = NoRow, !.enhanceCustomer = 0, !.plan = "",
                   !.enhanceSubscription = 0, !.subscription = NoRow, !.newStatus = "none"]
    ELSE [f EXCEPT !.pc = "handle_error", !.err = categorizeError(error)]

Did(f, effect) == [f EXCEPT !.effects[effect] = @ + 1]

Put(d, f) == req' = [req EXCEPT ![d] = f]

\* An awaited call fails with an injected error.
Fault(e) ==
    /\ faults < MaxFaults
    /\ e \in InjectedErrors
    /\ faults' = faults + 1

Store == <<webhook_logs, customers, subscriptions, enhance>>

\* Mutant of Receive: an event whose signature does not verify is processed.
ReceiveWithoutVerification(d, events) ==
    /\ req[d].pc = "idle"
    /\ \E e \in events, signature \in {"valid", "missing", "invalid"} :
          LET f == [req[d] EXCEPT !.event = e, !.signature = signature] IN
          CASE signature = "missing" ->
                  Put(d, Failed(f, AppError({}, VALIDATION, "low", FALSE), "signature"))
            [] OTHER -> Put(d, [f EXCEPT !.pc = "exists"])
    /\ UNCHANGED <<retry, Store, faults, sync>>

\* POST, lines 17-34: the body is read and the signature header checked.
Receive(d, events) ==
    /\ req[d].pc = "idle"
    /\ \E e \in events, signature \in {"valid", "missing", "invalid"} :
          LET f == [req[d] EXCEPT !.event = e, !.signature = signature] IN
          CASE signature = "missing" ->
                  Put(d, Failed(f, AppError({}, VALIDATION, "low", FALSE), "signature"))
            [] signature = "invalid" ->
                  Put(d, Failed(f, AppError({}, AUTHENTICATION, "high", FALSE), "signature"))
            [] OTHER -> Put(d, [f EXCEPT !.pc = "exists"])
    /\ UNCHANGED <<retry, Store, faults, sync>>

\* POST, lines 36-40: the existence check and its short circuit.
CheckExists(d) ==
    /\ req[d].pc = "exists"
    /\ LET key == idempotencyKey(req[d].event)
           seen == {r.status : r \in {x \in Rows(webhook_logs) : x.idempotency_key = key}}
           f == [req[d] EXCEPT !.rowAtCheck = IF seen = {} THEN "none" ELSE CHOOSE s \in seen : TRUE]
       IN IF webhookExists(webhook_logs, key)
          THEN Put(d, Received(f, "duplicate"))
          ELSE Put(d, [f EXCEPT !.pc = "log", !.attempt = 1])
    /\ UNCHANGED <<retry, Store, faults, sync>>

\* Mutant of LogWebhook: an insert that failed for good is logged and the
\* delivery goes on.
LogWebhookSwallowsFailure(d) ==
    /\ req[d].pc = "log"
    /\ LET f == req[d]
           key == idempotencyKey(f.event)
           caught(e) == IF RetryVerdict(e, f.attempt, LogMaxRetries) = "retry"
                        THEN [f EXCEPT !.attempt = @ + 1]
                        ELSE [f EXCEPT !.pc = "processing", !.attempt = 1]
       IN \/ /\ ~IdempotencyKeyTaken(webhook_logs, key)
             /\ webhook_logs' = logWebhook(webhook_logs,
                                  [idempotency_key |-> key, event_type |-> f.event.type,
                                   status |-> "received"])
             /\ Put(d, [f EXCEPT !.pc = "processing", !.inserted = TRUE,
                                 !.ledgerWrites = @ + 1, !.attempt = 1])
             /\ UNCHANGED faults
          \/ /\ IdempotencyKeyTaken(webhook_logs, key)
             /\ Put(d, caught(UniqueViolation))
             /\ UNCHANGED <<webhook_logs, faults>>
          \/ \E e \in InjectedErrors :
                /\ Fault(e)
                /\ Put(d, caught(e))
                /\ UNCHANGED webhook_logs
    /\ UNCHANGED <<retry, customers, subscriptions, enhance, sync>>

\* POST, lines 42-55: one attempt of withRetry(logWebhook, 3, 1000).
LogWebhook(d) ==
    /\ req[d].pc = "log"
    /\ LET f == req[d]
           key == idempotencyKey(f.event)
           caught(e) == IF RetryVerdict(e, f.attempt, LogMaxRetries) = "retry"
                        THEN [f EXCEPT !.attempt = @ + 1]
                        ELSE Failed(f, e, "log")
       IN \/ /\ ~IdempotencyKeyTaken(webhook_logs, key)
             /\ webhook_logs' = logWebhook(webhook_logs,
                                  [idempotency_key |-> key, event_type |-> f.event.type,
                                   status |-> "received"])
             /\ Put(d, [f EXCEPT !.pc = "processing", !.inserted = TRUE,
                                 !.ledgerWrites = @ + 1, !.attempt = 1])
             /\ UNCHANGED faults
          \/ /\ IdempotencyKeyTaken(webhook_logs, key)
             /\ Put(d, caught(UniqueViolation))
             /\ UNCHANGED <<webhook_logs, faults>>
          \/ \E e \in InjectedErrors :
                /\ Fault(e)
                /\ Put(d, caught(e))
                /\ UNCHANGED webhook_logs
    /\ UNCHANGED <<retry, customers, subscriptions, enhance, sync>>

\* POST, lines 57-78: the row is marked processing and the event dispatched.
\* The update is outside the inner try: its failure goes to the outer catch.
MarkProcessing(d) ==
    /\ req[d].pc = "processing"
    /\ LET f == req[d] IN
       \/ /\ webhook_logs' = updateWebhookStatus(webhook_logs, idempotencyKey(f.event),
                                                  "processing", NULL)
          /\ Put(d, [f EXCEPT !.pc = HandlerEntry(f.event.type), !.dispatched = TRUE,
                              !.ledgerWrites = @ + 1, !.attempt = 1])
          /\ UNCHANGED faults
       \/ \E e \in InjectedErrors :
             /\ Fault(e)
             /\ Put(d, Failed(f, e, "processing"))
             /\ UNCHANGED webhook_logs
    /\ UNCHANGED <<retry, customers, subscriptions, enhance, sync>>

----------------------------------------------------------------------------
\* handleCheckoutCompleted: the operation handed to withRetry, one await a step.
\* (For the three dispatched types the extraction never yields null, so the
\* "Failed to extract" throws of the handlers are not reachable from POST.)

\* lines 112-134: extraction and findCustomerByStripeId
CoFindCustomer(d) ==
    /\ req[d].pc = "co_find"
    /\ LET f == req[d]
           customerData == extractCustomerData(f.event)[1]
           customer == findCustomerByStripeId(customers, customerData.stripeCustomerId)
       IN IF customer.id = 0
          THEN Put(d, [f EXCEPT !.pc = "co_enhance_customer"])
          ELSE Put(d, [f EXCEPT !.pc = "co_plan", !.customer = customer])
    /\ UNCHANGED <<retry, Store, faults, sync>>

\* lines 141-145: EnhanceService.createCustomer
CoEnhanceCreateCustomer(d) ==
    /\ req[d].pc = "co_enhance_customer"
    /\ LET f == req[d] IN
       \/ /\ enhance' = [enhance EXCEPT !.customers = @ + 1]
          /\ Put(d, Did([f EXCEPT !.pc = "co_db_customer",
                                  !.enhanceCustomer = enhance.customers + 1],
                        "enhance.createCustomer"))
          /\ UNCHANGED faults
       \/ \E e \in InjectedErrors :
             /\ Fault(e)
             /\ Put(d, HandlerCatch(f, e))
             /\ UNCHANGED enhance
    /\ UNCHANGED <<retry, webhook_logs, customers, subscriptions, sync>>

\* lines 147-152: DatabaseService.createCustomer
CoDbCreateCustomer(d) ==
    /\ req[d].pc = "co_db_customer"
    /\ LET f == req[d]
           data == [enhance_customer_id |-> f.enhanceCustomer,
                    stripe_customer_id |-> f.event.customer, email |-> f.event.email]
       IN \/ /\ ~CustomerConflict(customers, data)
             /\ customers' = createCustomer(customers, data)
             /\ Put(d, Did([f EXCEPT !.pc = "co_plan",
                                     !.customer = customers'[Len(customers')]],
                           "db.createCustomer"))
             /\ UNCHANGED faults
          \/ /\ CustomerConflict(customers, data)
             /\ Put(d, HandlerCatch(f, UniqueViolation))
             /\ UNCHANGED <<customers, faults>>
          \/ \E e \in InjectedErrors :
                /\ Fault(e)
                /\ Put(d, HandlerCatch(f, e))
                /\ UNCHANGED customers
    /\ UNCHANGED <<retry, webhook_logs, subscriptions, enhance, sync>>

\* lines 155-162: findPlanMapping, BUSINESS_LOGIC when there is none
CoFindPlan(d) ==
    /\ req[d].pc = "co_plan"
    /\ LET f == req[d]
           found == findPlanMapping(extractSubscriptionData(f.event)[1].stripePriceId)
       IN IF found = {}
          THEN Put(d, HandlerCatch(f, AppError({}, BUSINESS_LOGIC, "high", FALSE)))
          ELSE Put(d, [f EXCEPT !.pc = "co_enhance_subscription",
                                !.plan = (CHOOSE m \in found : TRUE).enhance_plan_id])
    /\ UNCHANGED <<retry, Store, faults, sync>>

\* lines 164-167: EnhanceService.createSubscription
CoEnhanceCreateSubscription(d) ==
    /\ req[d].pc = "co_enhance_subscription"
    /\ LET f == req[d] IN
       \/ /\ enhance' = [enhance EXCEPT !.subscriptions =
                            Append(@, [customerId |-> f.customer.enhance_customer_id,
                                       planId |-> f.plan, status |-> "active"])]
          /\ Put(d, Did([f EXCEPT !.pc = "co_db_subscription",
                                  !.enhanceSubscription = Len(enhance.subscriptions) + 1],
                        "enhance.createSubscription"))
          /\ UNCHANGED faults
       \/ \E e \in InjectedErrors :
             /\ Fault(e)
             /\ Put(d, HandlerCatch(f, e))
             /\ UNCHANGED enhance
    /\ UNCHANGED <<retry, webhook_logs, customers, subscriptions, sync>>

\* lines 169-175: DatabaseService.createSubscription with status active
CoDbCreateSubscription(d) ==
    /\ req[d].pc = "co_db_subscription"
    /\ LET f == req[d]
           data == [customer_id |-> f.customer.id,
                    enhance_subscription_id |-> f.enhanceSubscription,
                    stripe_subscription_id |-> extractSubscriptionData(f.event)[1].stripeSubscriptionId,
                    enhance_plan_id |-> f.plan, status |-> "active"]
       IN \/ /\ ~SubscriptionConflict(subscriptions, data)
             /\ subscriptions' = createSubscription(subscriptions, data)
             /\ Put(d, Did([f EXCEPT !.pc = "success"], "db.createSubscription"))
             /\ UNCHANGED faults
          \/ /\ SubscriptionConflict(subscriptions, data)
             /\ Put(d, HandlerCatch(f, UniqueViolation))
             /\ UNCHANGED <<subscriptions, faults>>
          \/ \E e \in InjectedErrors :
                /\ Fault(e)
                /\ Put(d, HandlerCatch(f, e))
                /\ UNCHANGED subscriptions
    /\ UNCHANGED <<retry, webhook_logs, customers, enhance, sync>>

----------------------------------------------------------------------------
\* handleSubscriptionDeleted and handleSubscriptionUpdated.

\* Mutant of HandlerEnhanceAction: the call is made only when the provisioning
\* status is not yet the one the call leads to.
HandlerEnhanceActionIfDiffers(d, action, next) ==
    LET f == req[d]
        status == enhance.subscriptions[f.subscription.enhance_subscription_id].status
        result == IF action = "reactivate" THEN "active" ELSE "suspended"
    IN
    \/ /\ status /= result
       /\ enhance' = [enhance EXCEPT !.subscriptions =
                         EnhanceApply(@, f.subscription.enhance_subscription_id, action)]
       /\ Put(d, Did([f EXCEPT !.pc = next, !.action = action, !.enhanceBefore = status],
                     "enhance.action"))
       /\ UNCHANGED faults
    \/ /\ status = result
       /\ Put(d, [f EXCEPT !.pc = next])
       /\ UNCHANGED <<enhance, faults>>
    \/ \E e \in InjectedErrors :
          /\ Fault(e)
          /\ Put(d, HandlerCatch(f, e))
          /\ UNCHANGED enhance

\* An EnhanceService status call of a handler, then the pc it continues at.
HandlerEnhanceAction(d, action, next) ==
    LET f == req[d] IN
    \/ /\ enhance' = [enhance EXCEPT !.subscriptions =
                         EnhanceApply(@, f.subscription.enhance_subscription_id, action)]
       /\ Put(d, Did([f EXCEPT !.pc = next, !.action = action,
                               !.enhanceBefore =
                                   enhance.subscriptions[f.subscription.enhance_subscription_id].status],
                     "enhance.action"))
       /\ UNCHANGED faults
    \/ \E e \in InjectedErrors :
          /\ Fault(e)
          /\ Put(d, HandlerCatch(f, e))
          /\ UNCHANGED enhance

\* DatabaseService.updateSubscriptionStatus called by a handler.
HandlerUpdateStatus(d, status) ==
    LET f == req[d] IN
    \/ /\ subscriptions' = updateSubscriptionStatus(subscriptions, f.subscription.id, status)
       /\ Put(d, Did([f EXCEPT !.pc = "success", !.written = status],
                     "db.updateSubscriptionStatus"))
       /\ UNCHANGED faults
    \/ \E e \in InjectedErrors :
          /\ Fault(e)
          /\ Put(d, HandlerCatch(f, e))
          /\ UNCHANGED subscriptions

\* Mutant of DelFind: an unknown subscription is an error, as it is in
\* syncSingleSubscription ("Subscription not found in database").
DelFindThrowsWhenMissing(d) ==
    /\ req[d].pc = "del_find"
    /\ LET f == req[d]
           subscription == findSubscriptionByStripeId(subscriptions,
                              extractSubscriptionData(f.event)[1].stripeSubscriptionId)
       IN IF subscription.id = 0
          THEN Put(d, HandlerCatch(f, PlainError({"database"})))
          ELSE Put(d, [f EXCEPT !.pc = "del_suspend", !.subscription = subscription])
    /\ UNCHANGED <<retry, Store, faults, sync>>

\* handleSubscriptionDeleted, lines 195-215: the lookup, return when not found
DelFind(d) ==
    /\ req[d].pc = "del_find"
    /\ LET f == req[d]
           subscription == findSubscriptionByStripeId(subscriptions,
                              extractSubscriptionData(f.event)[1].stripeSubscriptionId)
       IN IF subscription.id = 0
          THEN Put(d, [f EXCEPT !.pc = "success"])
          ELSE Put(d, [f EXCEPT !.pc = "del_suspend", !.subscription = subscription])
    /\ UNCHANGED <<retry, Store, faults, sync>>

\* line 217: EnhanceService.suspendSubscription
DelSuspend(d) ==
    /\ req[d].pc = "del_suspend"
    /\ HandlerEnhanceAction(d, "suspend", "del_update")
    /\ UNCHANGED <<retry, webhook_logs, customers, subscriptions, sync>>

\* line 218: updateSubscriptionStatus(subscription.id, "canceled")
DelUpdate(d) ==
    /\ req[d].pc = "del_update"
    /\ HandlerUpdateStatus(d, "canceled")
    /\ UNCHANGED <<retry, webhook_logs, customers, enhance, sync>>

\* Mutant of UpdFind: a subscription the store does not hold is inserted
\* from the event's data before the handler returns.
UpdFindInsertsWhenMissing(d) ==
    /\ req[d].pc = "upd_find"
    /\ LET f == req[d]
           subscriptionData == extractSubscriptionData(f.event)[1]
           subscription == findSubscriptionByStripeId(subscriptions,
                              subscriptionData.stripeSubscriptionId)
           target == UpdatedTarget(subscriptionData.status)
       IN IF subscription.id = 0
          THEN /\ Put(d, [f EXCEPT !.pc = "success"])
               /\ subscriptions' = createSubscription(subscriptions,
                      [customer_id |-> 0, enhance_subscription_id |-> 0,
                       stripe_subscription_id |-> subscriptionData.stripeSubscriptionId,
                       enhance_plan_id |-> "", status |-> "active"])
          ELSE /\ IF target.action = "none"
                  THEN Put(d, [f EXCEPT !.pc = "success"])
                  ELSE Put(d, [f EXCEPT !.pc = "upd_action", !.subscription = subscription,
                                        !.newStatus = target.newStatus])
               /\ UNCHANGED subscriptions
    /\ UNCHANGED <<retry, webhook_logs, customers, enhance, faults, sync>>

\* handleSubscriptionUpdated, lines 237-284: the lookup and the switch; return
\* when the subscription is not found or the status is not one of the cases
UpdFind(d) ==
    /\ req[d].pc = "upd_find"
    /\ LET f == req[d]
           subscriptionData == extractSubscriptionData(f.event)[1]
           subscription == findSubscriptionByStripeId(subscriptions,
                              subscriptionData.stripeSubscriptionId)
           target == UpdatedTarget(subscriptionData.status)
       IN IF subscription.id = 0 \/ target.action = "none"
          THEN Put(d, [f EXCEPT !.pc = "success"])
          ELSE Put(d, [f EXCEPT !.pc = "upd_action", !.subscription = subscription,
                                !.newStatus = target.newStatus])
    /\ UNCHANGED <<retry, Store, faults, sync>>

\* lines 263, 268, 273: the EnhanceService call of the case
UpdAction(d) ==
    /\ req[d].pc = "upd_action"
    /\ HandlerEnhanceAction(d, UpdatedTarget(req[d].event.status).action, "upd_update")
    /\ UNCHANGED <<retry, webhook_logs, customers, subscriptions, sync>>

\* line 286: updateSubscriptionStatus(subscription.id, newStatus)
UpdUpdate(d) ==
    /\ req[d].pc = "upd_update"
    /\ HandlerUpdateStatus(d, req[d].newStatus)
    /\ UNCHANGED <<retry, webhook_logs, customers, enhance, sync>>

----------------------------------------------------------------------------
\* POST after the handler.

\* lines 80-85: the row is marked success and 200 returned; a failing update is
\* caught by the inner catch like a handler's error.
MarkSuccess(d) ==
    /\ req[d].pc = "success"
    /\ LET f == req[d] IN
       \/ /\ webhook_logs' = updateWebhookStatus(webhook_logs, idempotencyKey(f.event),
                                                  "success", NULL)
          /\ Put(d, Received([f EXCEPT !.ledgerWrites = @ + 1], "ok"))
          /\ UNCHANGED faults
       \/ \E e \in InjectedErrors :
             /\ Fault(e)
             /\ Put(d, [f EXCEPT !.pc = "handle_error", !.err = e])
             /\ UNCHANGED webhook_logs
    /\ UNCHANGED <<retry, customers, subscriptions, enhance, sync>>

\* Mutant of HandleWebhookError: the alert is sent for severity high as well.
HandleWebhookErrorAlertsOnHigh(d) ==
    /\ req[d].pc = "handle_error"
    /\ LET f == [req[d] EXCEPT !.handled = req[d].err]
           appError == categorizeError(f.err)
           alert == IF appError.severity \in {"critical", "high"} THEN 1 ELSE 0
       IN \/ /\ webhook_logs' = updateWebhookStatus(webhook_logs, idempotencyKey(f.event),
                                   "error", <<appError.category, appError.message>>)
             /\ Put(d, Failed([f EXCEPT !.ledgerWrites = @ + 1, !.alerts = @ + alert],
                              f.err, "handler"))
             /\ UNCHANGED faults
          \/ \E e \in InjectedErrors :
                /\ Fault(e)
                /\ Put(d, Failed(f, e, "handle_error"))
                /\ UNCHANGED webhook_logs
    /\ UNCHANGED <<retry, customers, subscriptions, enhance, sync>>

\* lines 86-103 and ErrorHandler.handleWebhookError: the row is set to error
\* with "<category>: <message>", sendCriticalAlert is called when the
\* classified error's severity is critical, then the error is rethrown to the
\* outer catch. When the update itself fails, its error is what the outer
\* catch receives and no alert is sent.
HandleWebhookError(d) ==
    /\ req[d].pc = "handle_error"
    /\ LET f == [req[d] EXCEPT !.handled = req[d].err]
           appError == categorizeError(f.err)
           alert == IF appError.severity = "critical" THEN 1 ELSE 0
       IN \/ /\ webhook_logs' = updateWebhookStatus(webhook_logs, idempotencyKey(f.event),
                                   "error", <<appError.category, appError.message>>)
             /\ Put(d, Failed([f EXCEPT !.ledgerWrites = @ + 1, !.alerts = @ + alert],
                              f.err, "handler"))
             /\ UNCHANGED faults
          \/ \E e \in InjectedErrors :
                /\ Fault(e)
                /\ Put(d, Failed(f, e, "handle_error"))
                /\ UNCHANGED webhook_logs
    /\ UNCHANGED <<retry, customers, subscriptions, enhance, sync>>

Delivery(d, events) ==
    \/ Receive(d, events)
    \/ CheckExists(d)
    \/ LogWebhook(d)
    \/ MarkProcessing(d)
    \/ CoFindCustomer(d)
    \/ CoEnhanceCreateCustomer(d)
    \/ CoDbCreateCustomer(d)
    \/ CoFindPlan(d)
    \/ CoEnhanceCreateSubscription(d)
    \/ CoDbCreateSubscription(d)
    \/ DelFind(d)
    \/ DelSuspend(d)
    \/ DelUpdate(d)
    \/ UpdFind(d)
    \/ UpdAction(d)
    \/ UpdUpdate(d)
    \/ MarkSuccess(d)
    \/ HandleWebhookError(d)

----------------------------------------------------------------------------
\* SubscriptionManager.syncSingleSubscription, one await a step.

\* The admin request that makes the SubscriptionManager call, when there is
\* one: its endpoint, the ADMIN_API_KEY of the environment, its Authorization
\* header and parameters, the customer row it found, the response, and the
\* store reads and provisioning calls the endpoint itself has made.
NoAdminRequest ==
    [endpoint |-> "none", pc |-> "off", key |-> "", authorization |-> [present |-> FALSE, value |-> <<>>],
     subscriptionId |-> "", email |-> "", customerId |-> "", customer |-> NoRow,
     code |-> 0, body |-> <<>>, reads |-> 0, calls |-> 0]

\* What is kept of a sweep that ran before the present one: how it ended
\* ("none": there was no earlier sweep), its summary's success, the
\* subscriptions it had handed to syncSingleSubscription, and for a sweep that
\* was cut off the await its item was at ("off": between items) and the
\* provisioning action that item had made.
NoSweep == [ended |-> "none", success |-> FALSE, swept |-> {}, cut |-> "none", action |-> "none"]

\* The frame of a SubscriptionManager call that has not started: the locals of
\* syncSingleSubscription, of the sweep around it (syncAllSubscriptions) and of
\* changePlan, and what the call has done so far.
SyncIdle ==
    [pc |-> "off", stripeSubscriptionId |-> "", dbSubscription |-> NoRow,
     stripeStatus |-> "none", enhanceStatus |-> "none", targetStatus |-> "none",
     action |-> "none", written |-> "none", err |-> NoError,
     sweep |-> "off", list |-> <<>>, index |-> 0, syncedCount |-> 0, errors |-> <<>>,
     success |-> FALSE, attempted |-> <<>>,
     newStripePriceId |-> "", newPlan |-> "", failedAt |-> "none",
     admin |-> NoAdminRequest,
     round |-> 1, stripe |-> {}, first |-> NoSweep]

\* lines 46-49: findSubscriptionByStripeId, throw when not found
SyncFind ==
    /\ sync.pc = "find"
    /\ LET dbSubscription == findSubscriptionByStripeId(subscriptions, sync.stripeSubscriptionId)
       IN IF dbSubscription.id = 0
          THEN sync' = [sync EXCEPT !.pc = "failed", !.err = PlainError({"database"})]
          ELSE sync' = [sync EXCEPT !.pc = "stripe", !.dbSubscription = dbSubscription]
    /\ UNCHANGED <<retry, Store, req, faults>>

\* line 51: StripeService.getSubscription; the provider answers any status
SyncFetchStripe ==
    /\ sync.pc = "stripe"
    /\ \/ /\ \E s \in StripeStatuses : sync' = [sync EXCEPT !.pc = "enhance", !.stripeStatus = s]
          /\ UNCHANGED faults
       \/ \E e \in InjectedErrors :
             /\ Fault(e)
             /\ sync' = [sync EXCEPT !.pc = "failed", !.err = e]
    /\ UNCHANGED <<retry, Store, req>>

\* The status the payments provider has answered for a subscription so far
\* ("none": it was not asked yet); sync.stripe holds the answers as pairs.
StripeStatusOf(stripe, stripeSubscriptionId) ==
    IF \E p \in stripe : p[1] = stripeSubscriptionId
    THEN (CHOOSE p \in stripe : p[1] = stripeSubscriptionId)[2]
    ELSE "none"

\* line 51: StripeService.getSubscription while the payments provider's
\* subscriptions do not change: the provider answers any status the first time
\* a subscription is asked for, and the same status every time after
SyncFetchStripeSteady ==
    /\ sync.pc = "stripe"
    /\ \/ /\ \E s \in StripeStatuses :
                /\ StripeStatusOf(sync.stripe, sync.stripeSubscriptionId) \in {"none", s}
                /\ sync' = [sync EXCEPT !.pc = "enhance", !.stripeStatus = s,
                                        !.stripe = @ \cup {<<sync.stripeSubscriptionId, s>>}]
          /\ UNCHANGED faults
       \/ \E e \in InjectedErrors :
             /\ Fault(e)
             /\ sync' = [sync EXCEPT !.pc = "failed", !.err = e]
    /\ UNCHANGED <<retry, Store, req>>

\* lines 53-71: EnhanceService.getSubscription, then the target of the switch;
\* return when the provider status is none of the cases
SyncFetchEnhance ==
    /\ sync.pc = "enhance"
    /\ \/ /\ LET target == SyncTarget(sync.stripeStatus)
                 status == enhance.subscriptions[sync.dbSubscription.enhance_subscription_id].status
             IN sync' = [sync EXCEPT !.pc = IF target = "none" THEN "done" ELSE "converge",
                                     !.enhanceStatus = status, !.targetStatus = target]
          /\ UNCHANGED faults
       \/ \E e \in InjectedErrors :
             /\ Fault(e)
             /\ sync' = [sync EXCEPT !.pc = "failed", !.err = e]
    /\ UNCHANGED <<retry, Store, req>>

\* Mutant of SyncConverge: the provisioning call is made whatever was read.
SyncConvergeAlways ==
    /\ sync.pc = "converge"
    /\ \/ /\ enhance' = [enhance EXCEPT !.subscriptions =
                             EnhanceApply(@, sync.dbSubscription.enhance_subscription_id,
                                          SyncAction(sync.targetStatus))]
          /\ sync' = [sync EXCEPT !.pc = "write", !.action = SyncAction(sync.targetStatus)]
          /\ UNCHANGED faults
       \/ \E e \in InjectedErrors :
             /\ Fault(e)
             /\ sync' = [sync EXCEPT !.pc = "failed", !.err = e]
             /\ UNCHANGED enhance
    /\ UNCHANGED <<retry, webhook_logs, customers, subscriptions, req>>

\* lines 73-85: the provisioning call, made when the status read differs
SyncConverge ==
    /\ sync.pc = "converge"
    /\ IF sync.enhanceStatus /= sync.targetStatus
       THEN \/ /\ enhance' = [enhance EXCEPT !.subscriptions =
                                 EnhanceApply(@, sync.dbSubscription.enhance_subscription_id,
                                              SyncAction(sync.targetStatus))]
               /\ sync' = [sync EXCEPT !.pc = "write", !.action = SyncAction(sync.targetStatus)]
               /\ UNCHANGED faults
            \/ \E e \in InjectedErrors :
                  /\ Fault(e)
                  /\ sync' = [sync EXCEPT !.pc = "failed", !.err = e]
                  /\ UNCHANGED enhance
       ELSE /\ sync' = [sync EXCEPT !.pc = "write"]
            /\ UNCHANGED <<enhance, faults>>
    /\ UNCHANGED <<retry, webhook_logs, customers, subscriptions, req>>

\* Mutant of SyncWrite: the internal status is written whether or not it
\* differs from the target.
SyncWriteAlways ==
    /\ sync.pc = "write"
    /\ \/ /\ subscriptions' = updateSubscriptionStatus(subscriptions, sync.dbSubscription.id,
                                                       sync.targetStatus)
          /\ sync' = [sync EXCEPT !.pc = "done", !.written = sync.targetStatus]
          /\ UNCHANGED faults
       \/ \E e \in InjectedErrors :
             /\ Fault(e)
             /\ sync' = [sync EXCEPT !.pc = "failed", !.err = e]
             /\ UNCHANGED subscriptions
    /\ UNCHANGED <<retry, webhook_logs, customers, enhance, req>>

\* Mutant of SyncWrite: the internal write is made only by a call that also
\* made the provisioning call.
SyncWriteOnlyAfterAction ==
    /\ sync.pc = "write"
    /\ IF sync.dbSubscription.status /= sync.targetStatus /\ sync.action /= "none"
       THEN \/ /\ subscriptions' = updateSubscriptionStatus(subscriptions, sync.dbSubscription.id,
                                                            sync.targetStatus)
               /\ sync' = [sync EXCEPT !.pc = "done", !.written = sync.targetStatus]
               /\ UNCHANGED faults
            \/ \E e \in InjectedErrors :
                  /\ Fault(e)
                  /\ sync' = [sync EXCEPT !.pc = "failed", !.err = e]
                  /\ UNCHANGED subscriptions
       ELSE /\ sync' = [sync EXCEPT !.pc = "done"]
            /\ UNCHANGED <<subscriptions, faults>>
    /\ UNCHANGED <<retry, webhook_logs, customers, enhance, req>>

\* lines 87-89: the internal write, made when the status read differs
SyncWrite ==
    /\ sync.pc = "write"
    /\ IF sync.dbSubscription.status /= sync.targetStatus
       THEN \/ /\ subscriptions' = updateSubscriptionStatus(subscriptions, sync.dbSubscription.id,
                                                            sync.targetStatus)
               /\ sync' = [sync EXCEPT !.pc = "done", !.written = sync.targetStatus]
               /\ UNCHANGED faults
            \/ \E e \in InjectedErrors :
                  /\ Fault(e)
                  /\ sync' = [sync EXCEPT !.pc = "failed", !.err = e]
                  /\ UNCHANGED subscriptions
       ELSE /\ sync' = [sync EXCEPT !.pc = "done"]
            /\ UNCHANGED <<subscriptions, faults>>
    /\ UNCHANGED <<retry, webhook_logs, customers, enhance, req>>

----------------------------------------------------------------------------
\* SubscriptionManager.syncAllSubscriptions: the sweep around syncSingleSubscription.

\* Mutant of getAllActiveSubscriptions: the query has no WHERE clause.
getAllActiveSubscriptionsOfAnyStatus(table) ==
    [k \in 1..Len(table) |-> table[Len(table) + 1 - k]]

\* DatabaseService.getAllActiveSubscriptions: the rows whose status is active
\* or suspended, ORDER BY created_at DESC (the latest insertion first).
getAllActiveSubscriptions(table) ==
    LET listed == {i \in 1..Len(table) : table[i].status \in {"active", "suspended"}}
    IN [k \in 1..Cardinality(listed) |->
           table[CHOOSE i \in listed : Cardinality({j \in listed : j > i}) = k - 1]]

\* lines 17-18 and the outer catch, lines 36-42: the list is fetched; when the
\* query fails the sweep returns success: false with the one error message.
SweepList ==
    /\ sync.sweep = "list"
    /\ \/ /\ sync' = [sync EXCEPT !.sweep = "loop", !.index = 1,
                                   !.list = getAllActiveSubscriptions(subscriptions)]
          /\ UNCHANGED faults
       \/ \E e \in InjectedErrors :
             /\ Fault(e)
             /\ sync' = [sync EXCEPT !.sweep = "returned", !.success = FALSE,
                                     !.errors = <<e.message>>]
    /\ UNCHANGED <<retry, Store, req>>

\* lines 20-22: the next subscription of the list is handed to syncSingleSubscription
SweepNext ==
    /\ sync.sweep = "loop"
    /\ sync.pc = "off"
    /\ sync.index <= Len(sync.list)
    /\ sync' = [sync EXCEPT !.pc = "find",
                            !.stripeSubscriptionId = sync.list[sync.index].stripe_subscription_id,
                            !.attempted = Append(@, sync.list[sync.index].stripe_subscription_id),
                            !.dbSubscription = NoRow, !.stripeStatus = "none",
                            !.enhanceStatus = "none", !.targetStatus = "none",
                            !.action = "none", !.written = "none", !.err = NoError]
    /\ UNCHANGED <<retry, Store, req, faults>>

\* Mutant of SweepAfterItem: the first item that fails ends the sweep.
SweepAfterItemAbortsOnFailure(s) ==
    IF s.pc = "done"
    THEN [s EXCEPT !.pc = "off", !.syncedCount = @ + 1, !.index = @ + 1]
    ELSE [s EXCEPT !.pc = "off", !.index = Len(s.list) + 1,
                   !.errors = Append(@, <<s.stripeSubscriptionId, s.err.message>>)]

\* lines 23-28: syncedCount++ when the call returned, errors.push(...) in the
\* catch when it threw; the loop goes on with the next item either way.
SweepAfterItem(s) ==
    IF s.pc = "done"
    THEN [s EXCEPT !.pc = "off", !.syncedCount = @ + 1, !.index = @ + 1]
    ELSE [s EXCEPT !.pc = "off", !.index = @ + 1,
                   !.errors = Append(@, <<s.stripeSubscriptionId, s.err.message>>)]

SweepItemEnd ==
    /\ sync.sweep = "loop"
    /\ sync.pc \in {"done", "failed"}
    /\ sync' = SweepAfterItem(sync)
    /\ UNCHANGED <<retry, Store, req, faults>>

\* lines 31-35: the summary, success: errors.length === 0
SweepReturn ==
    /\ sync.sweep = "loop"
    /\ sync.pc = "off"
    /\ sync.index > Len(sync.list)
    /\ sync' = [sync EXCEPT !.sweep = "returned", !.success = (Len(sync.errors) = 0)]
    /\ UNCHANGED <<retry, Store, req, faults>>

\* lines 13-16, a second time: syncAllSubscriptions is called again after an
\* earlier call returned, or was cut off by the end of its invocation at any
\* of its awaits; the new call starts with fresh locals.
SweepAgain ==
    /\ sync.round = 1
    /\ sync.sweep \in {"list", "loop", "returned"}
    /\ sync' = [SyncIdle EXCEPT
                   !.sweep = "list", !.round = 2, !.stripe = sync.stripe,
                   !.first = [ended |-> IF sync.sweep = "returned" THEN "returned" ELSE "interrupted",
                              success |-> sync.sweep = "returned" /\ sync.success,
                              swept |-> {sync.attempted[k] : k \in 1..Len(sync.attempted)},
                              cut |-> IF sync.sweep = "returned" THEN "none" ELSE sync.pc,
                              action |-> IF sync.sweep = "returned" THEN "none" ELSE sync.action]]
    /\ UNCHANGED <<retry, Store, req, faults>>

----------------------------------------------------------------------------
\* SubscriptionManager.changePlan, one await a step.

\* Mutant of updateSubscriptionPlan: the UPDATE also resets the provisioning
\* subscription id of the row.
updateSubscriptionPlanResetsProvisioningId(table, id, enhancePlanId) ==
    [i \in 1..Len(table) |->
        IF table[i].id = id
        THEN [table[i] EXCEPT !.enhance_plan_id = enhancePlanId, !.enhance_subscription_id = 0]
        ELSE table[i]]

\* DatabaseService.updateSubscriptionPlan: UPDATE ... SET enhance_plan_id WHERE id
updateSubscriptionPlan(table, id, enhancePlanId) ==
    [i \in 1..Len(table) |->
        IF table[i].id = id THEN [table[i] EXCEPT !.enhance_plan_id = enhancePlanId]
        ELSE table[i]]

\* EnhanceService.changeSubscriptionPlan: POST .../change-plan {plan_id}
changeSubscriptionPlan(subs, subscriptionId, newPlanId) ==
    [i \in 1..Len(subs) |->
        IF i = subscriptionId THEN [subs[i] EXCEPT !.planId = newPlanId] ELSE subs[i]]

\* lines 95-98: findSubscriptionByStripeId, throw when not found
ChangePlanFind ==
    /\ sync.pc = "cp_find"
    /\ LET dbSubscription == findSubscriptionByStripeId(subscriptions, sync.stripeSubscriptionId)
       IN IF dbSubscription.id = 0
          THEN sync' = [sync EXCEPT !.pc = "failed", !.failedAt = "find", !.err = PlainError({})]
          ELSE sync' = [sync EXCEPT !.pc = "cp_mapping", !.dbSubscription = dbSubscription]
    /\ UNCHANGED <<retry, Store, req, faults>>

\* lines 100-103: findPlanMapping, throw when there is none
ChangePlanMapping ==
    /\ sync.pc = "cp_mapping"
    /\ LET found == findPlanMapping(sync.newStripePriceId)
       IN IF found = {}
          THEN sync' = [sync EXCEPT !.pc = "failed", !.failedAt = "mapping", !.err = PlainError({})]
          ELSE sync' = [sync EXCEPT !.pc = "cp_enhance",
                                   !.newPlan = (CHOOSE m \in found : TRUE).enhance_plan_id]
    /\ UNCHANGED <<retry, Store, req, faults>>

\* line 105: EnhanceService.changeSubscriptionPlan
ChangePlanEnhance ==
    /\ sync.pc = "cp_enhance"
    /\ \/ /\ enhance' = [enhance EXCEPT !.subscriptions =
                             changeSubscriptionPlan(@, sync.dbSubscription.enhance_subscription_id,
                                                    sync.newPlan)]
          /\ sync' = [sync EXCEPT !.pc = "cp_db", !.action = "change-plan"]
          /\ UNCHANGED faults
       \/ \E e \in InjectedErrors :
             /\ Fault(e)
             /\ sync' = [sync EXCEPT !.pc = "failed", !.failedAt = "enhance", !.err = e]
             /\ UNCHANGED enhance
    /\ UNCHANGED <<retry, webhook_logs, customers, subscriptions, req>>

\* Mutant of ChangePlanDb: when the internal update fails the provisioning
\* plan is put back to the one the internal record holds.
ChangePlanDbRollsBack ==
    /\ sync.pc = "cp_db"
    /\ \/ /\ subscriptions' = updateSubscriptionPlan(subscriptions, sync.dbSubscription.id,
                                                     sync.newPlan)
          /\ sync' = [sync EXCEPT !.pc = "done", !.written = sync.newPlan]
          /\ UNCHANGED <<enhance, faults>>
       \/ \E e \in InjectedErrors :
             /\ Fault(e)
             /\ sync' = [sync EXCEPT !.pc = "failed", !.failedAt = "db", !.err = e]
             /\ enhance' = [enhance EXCEPT !.subscriptions =
                               changeSubscriptionPlan(@, sync.dbSubscription.enhance_subscription_id,
                                                      sync.dbSubscription.enhance_plan_id)]
             /\ UNCHANGED subscriptions
    /\ UNCHANGED <<retry, webhook_logs, customers, req>>

\* line 107: DatabaseService.updateSubscriptionPlan
ChangePlanDb ==
    /\ sync.pc = "cp_db"
    /\ \/ /\ subscriptions' = updateSubscriptionPlan(subscriptions, sync.dbSubscription.id,
                                                     sync.newPlan)
          /\ sync' = [sync EXCEPT !.pc = "done", !.written = sync.newPlan]
          /\ UNCHANGED <<enhance, faults>>
       \/ \E e \in InjectedErrors :
             /\ Fault(e)
             /\ sync' = [sync EXCEPT !.pc = "failed", !.failedAt = "db", !.err = e]
             /\ UNCHANGED <<subscriptions, enhance>>
    /\ UNCHANGED <<retry, webhook_logs, customers, req>>

----------------------------------------------------------------------------
\* The admin endpoints: POST /api/admin/sync, GET and PATCH /api/admin/customers.

\* process.env.ADMIN_API_KEY of a deployment that does not set it
Unset == "<unset>"

\* `Bearer ${process.env.ADMIN_API_KEY}`: a template literal renders an
\* undefined value as the text "undefined"
BearerOf(key) == <<"Bearer", IF key = Unset THEN "undefined" ELSE key>>

\* Mutant of Unauthorized: any header that is present is let through.
UnauthorizedOnlyWhenMissing(authHeader, key) ==
    ~authHeader.present \/ authHeader.value = <<>>

\* !authHeader || authHeader !== `Bearer ${process.env.ADMIN_API_KEY}`
\* (request.headers.get answers null for a missing header; the empty text is
\* falsy as well)
Unauthorized(authHeader, key) ==
    \/ ~authHeader.present \/ authHeader.value = <<>>
    \/ authHeader.value /= BearerOf(key)

AdminReturn(a, code, body) == [a EXCEPT !.pc = "returned", !.code = code, !.body = body]

\* the first lines of the three handlers: 401 unless the header matches
AdminAuth ==
    /\ sync.admin.pc = "auth"
    /\ sync' = [sync EXCEPT !.admin =
                   IF Unauthorized(@.authorization, @.key)
                   THEN AdminReturn(@, 401, <<"Unauthorized">>)
                   ELSE [@ EXCEPT !.pc = sync.admin.endpoint]]
    /\ UNCHANGED <<retry, Store, req, faults>>

\* POST /api/admin/sync, lines 357-368: syncSingleSubscription when the body
\* names a subscription, syncAllSubscriptions otherwise
AdminSyncStart ==
    /\ sync.admin.pc = "sync"
    /\ sync' = IF sync.admin.subscriptionId /= ""
               THEN [sync EXCEPT !.admin.pc = "await", !.pc = "find",
                                 !.stripeSubscriptionId = sync.admin.subscriptionId]
               ELSE [sync EXCEPT !.admin.pc = "await", !.sweep = "list"]
    /\ UNCHANGED <<retry, Store, req, faults>>

\* POST /api/admin/sync, lines 361-379: the answer once the call has ended;
\* a throw of syncSingleSubscription is answered 500, the sweep returns its
\* summary whatever happened
AdminSyncReturn ==
    /\ sync.admin.pc = "await"
    /\ \/ /\ sync.sweep = "off"
          /\ sync.pc = "done"
          /\ sync' = [sync EXCEPT !.admin = AdminReturn(@, 200, <<"Synced", sync.stripeSubscriptionId>>)]
       \/ /\ sync.sweep = "off"
          /\ sync.pc = "failed"
          /\ sync' = [sync EXCEPT !.admin = AdminReturn(@, 500, <<sync.err.message>>)]
       \/ /\ sync.sweep = "returned"
          /\ sync' = [sync EXCEPT !.admin = AdminReturn(@, 200, <<sync.success, sync.syncedCount>>)]
    /\ UNCHANGED <<retry, Store, req, faults>>

\* GET /api/admin/customers, lines 13-21, 31-35 and 45: the customer is looked
\* up by email when there is one, else by customerId, else the answer is 400
AdminLookupCustomer ==
    /\ sync.admin.pc = "lookup"
    /\ LET a == sync.admin IN
       IF a.email = "" /\ a.customerId = ""
       THEN /\ sync' = [sync EXCEPT !.admin = AdminReturn(@, 400, <<"Email or customerId parameter required">>)]
            /\ UNCHANGED faults
       ELSE \/ /\ LET customer == IF a.email /= ""
                                  THEN findCustomerByEmail(customers, a.email)
                                  ELSE findCustomerByStripeId(customers, a.customerId)
                  IN sync' = [sync EXCEPT !.admin =
                                 IF customer.id = 0
                                 THEN [AdminReturn(@, 404, <<"Customer not found">>) EXCEPT !.reads = @ + 1]
                                 ELSE [@ EXCEPT !.pc = "lookup_subscriptions", !.customer = customer,
                                                !.reads = @ + 1]]
               /\ UNCHANGED faults
            \/ \E e \in InjectedErrors :
                  /\ Fault(e)
                  /\ sync' = [sync EXCEPT !.admin = AdminReturn(@, 500, <<e.message>>)]
    /\ UNCHANGED <<retry, Store, req>>

\* GET /api/admin/customers, lines 23-28 and 37-42: getCustomerSubscriptions
AdminLookupSubscriptions ==
    /\ sync.admin.pc = "lookup_subscriptions"
    /\ \/ /\ sync' = [sync EXCEPT !.admin =
                         [AdminReturn(@, 200, <<@.customer,
                                                getCustomerSubscriptions(subscriptions, @.customer.id)>>)
                             EXCEPT !.reads = @ + 1]]
          /\ UNCHANGED faults
       \/ \E e \in InjectedErrors :
             /\ Fault(e)
             /\ sync' = [sync EXCEPT !.admin = AdminReturn(@, 500, <<e.message>>)]
    /\ UNCHANGED <<retry, Store, req>>

\* PATCH /api/admin/customers, lines 64-74: customerId is required, the
\* customer must exist
AdminUpdateFind ==
    /\ sync.admin.pc = "update"
    /\ LET a == sync.admin IN
       IF a.customerId = ""
       THEN /\ sync' = [sync EXCEPT !.admin = AdminReturn(@, 400, <<"customerId required">>)]
            /\ UNCHANGED faults
       ELSE \/ /\ LET customer == findCustomerByStripeId(customers, a.customerId)
                  IN sync' = [sync EXCEPT !.admin =
                                 IF customer.id = 0
                                 THEN [AdminReturn(@, 404, <<"Customer not found">>) EXCEPT !.reads = @ + 1]
                                 ELSE [@ EXCEPT !.pc = "update_enhance", !.customer = customer,
                                                !.reads = @ + 1]]
               /\ UNCHANGED faults
            \/ \E e \in InjectedErrors :
                  /\ Fault(e)
                  /\ sync' = [sync EXCEPT !.admin = AdminReturn(@, 500, <<e.message>>)]
    /\ UNCHANGED <<retry, Store, req>>

\* PATCH /api/admin/customers, lines 76-80: EnhanceService.updateCustomer
\* (the provisioning customer's contact data is not part of the state)
AdminUpdateEnhance ==
    /\ sync.admin.pc = "update_enhance"
    /\ \/ /\ sync' = [sync EXCEPT !.admin.pc = "update_db", !.admin.calls = @ + 1,
                                   !.action = "update-customer"]
          /\ UNCHANGED faults
       \/ \E e \in InjectedErrors :
             /\ Fault(e)
             /\ sync' = [sync EXCEPT !.admin = AdminReturn(@, 500, <<e.message>>)]
    /\ UNCHANGED <<retry, Store, req>>

\* PATCH /api/admin/customers, lines 82-90: DatabaseService.updateCustomer
\* with email || customer.email
AdminUpdateDb ==
    /\ sync.admin.pc = "update_db"
    /\ \/ /\ LET a == sync.admin
                 data == [email |-> IF a.email /= "" THEN a.email ELSE a.customer.email]
             IN /\ customers' = updateCustomer(customers, a.customer.id, data)
                /\ sync' = [sync EXCEPT !.admin = AdminReturn(@, 200, <<data.email>>),
                                        !.written = "customer"]
          /\ UNCHANGED faults
       \/ \E e \in InjectedErrors :
             /\ Fault(e)
             /\ sync' = [sync EXCEPT !.admin = AdminReturn(@, 500, <<e.message>>)]
             /\ UNCHANGED customers
    /\ UNCHANGED <<retry, webhook_logs, subscriptions, enhance, req>>

----------------------------------------------------------------------------
\* The specifications.

EmptyEnhance == [customers |-> 0, subscriptions |-> <<>>]

\* The store holds customer cus_1 with subscription sub_1, created by an
\* earlier checkout, in internal status s and provisioning status es.
SeededStore(s, es) ==
    /\ customers = <<[id |-> 1, enhance_customer_id |-> 1, stripe_customer_id |-> "cus_1",
                      email |-> "owner@example.com"]>>
    /\ subscriptions = <<[id |-> 1, customer_id |-> 1, enhance_subscription_id |-> 1,
                          stripe_subscription_id |-> "sub_1",
                          enhance_plan_id |-> "pro-hosting-plan", status |-> s]>>
    /\ enhance = [customers |-> 1,
                  subscriptions |-> <<[customerId |-> 1, planId |-> "pro-hosting-plan",
                                       status |-> es]>>]

EmptyStore ==
    /\ customers = <<>>
    /\ subscriptions = <<>>
    /\ enhance = EmptyEnhance

Init ==
    /\ RetryIdle
    /\ webhook_logs = <<>>
    /\ EmptyStore \/ SeededStore("active", "active")
    /\ req = [d \in Deliveries |-> IdleFrame]
    /\ faults = 0
    /\ sync = SyncIdle

Next == \E d \in Deliveries : Delivery(d, IntakeEvents)

Spec == Init /\ [][Next]_vars

RetryStoreInit ==
    /\ RetryInit
    /\ webhook_logs = <<>>
    /\ EmptyStore
    /\ req = [d \in Deliveries |-> IdleFrame]
    /\ faults = 0
    /\ sync = SyncIdle

NextRetry == RetryInvoke \/ RetryCatch \/ RetryWake

SpecRetry == RetryStoreInit /\ [][NextRetry]_vars

ReconInit ==
    /\ RetryIdle
    /\ webhook_logs = <<>>
    /\ \E s \in SubscriptionStatus, es \in SubscriptionStatus : SeededStore(s, es)
    /\ req = [d \in Deliveries |-> IdleFrame]
    /\ faults = 0
    /\ sync = [SyncIdle EXCEPT !.pc = "find", !.stripeSubscriptionId = "sub_1"]

NextRecon ==
    \/ Receive("d1", ReconEvents)
    \/ CheckExists("d1")
    \/ LogWebhook("d1")
    \/ MarkProcessing("d1")
    \/ DelFind("d1")
    \/ DelSuspend("d1")
    \/ DelUpdate("d1")
    \/ UpdFind("d1")
    \/ UpdAction("d1")
    \/ UpdUpdate("d1")
    \/ MarkSuccess("d1")
    \/ HandleWebhookError("d1")
    \/ SyncFind
    \/ SyncFetchStripe
    \/ SyncFetchEnhance
    \/ SyncConverge
    \/ SyncWrite

SpecRecon == ReconInit /\ [][NextRecon]_vars

\* Payments-provider ids of the subscriptions of SweepStore.
SweepSubscriptionIds == <<"sub_1", "sub_2", "sub_3", "sub_4">>

\* The store holds n subscriptions of customer cus_1, sub_1 .. sub_n in the
\* order of their creation, subscription i in internal status status[i] and
\* all of them in provisioning status es.
SweepStore(n, status, es) ==
    /\ customers = <<[id |-> 1, enhance_customer_id |-> 1, stripe_customer_id |-> "cus_1",
                      email |-> "owner@example.com"]>>
    /\ subscriptions = [i \in 1..n |->
                           [id |-> i, customer_id |-> 1, enhance_subscription_id |-> i,
                            stripe_subscription_id |-> SweepSubscriptionIds[i],
                            enhance_plan_id |-> "pro-hosting-plan", status |-> status[i]]]
    /\ enhance = [customers |-> 1,
                  subscriptions |-> [i \in 1..n |->
                      [customerId |-> 1, planId |-> "pro-hosting-plan", status |-> es]]]

SweepInit ==
    /\ RetryIdle
    /\ webhook_logs = <<>>
    /\ \E n \in 0..MaxSweep :
          \E status \in [1..n -> SubscriptionStatus], es \in {"active", "suspended"} :
              SweepStore(n, status, es)
    /\ req = [d \in Deliveries |-> IdleFrame]
    /\ faults = 0
    /\ sync = [SyncIdle EXCEPT !.sweep = "list"]

NextSweep ==
    \/ SweepList
    \/ SweepNext
    \/ SyncFind
    \/ SyncFetchStripe
    \/ SyncFetchEnhance
    \/ SyncConverge
    \/ SyncWrite
    \/ SweepItemEnd
    \/ SweepReturn

SpecSweep == SweepInit /\ [][NextSweep]_vars

\* changePlan is called for sub_1 or for a subscription the store does not
\* hold, with the price of a seeded plan or one that has no mapping.
PlanInit ==
    /\ RetryIdle
    /\ webhook_logs = <<>>
    /\ \E s \in SubscriptionStatus, es \in SubscriptionStatus : SeededStore(s, es)
    /\ req = [d \in Deliveries |-> IdleFrame]
    /\ faults = 0
    /\ \E id \in {"sub_1", "sub_9"},
          price \in {m.billing_plan_id : m \in PlanMappings} \cup {"price_unknown"} :
          sync = [SyncIdle EXCEPT !.pc = "cp_find", !.stripeSubscriptionId = id,
                                  !.newStripePriceId = price]

NextPlan == ChangePlanFind \/ ChangePlanMapping \/ ChangePlanEnhance \/ ChangePlanDb

SpecPlan == PlanInit /\ [][NextPlan]_vars

\* lines 13-16 after lines 94-110: syncAllSubscriptions is called once the
\* changePlan call has returned or thrown; the store is as changePlan left it.
SweepAfterChangePlan ==
    /\ sync.sweep = "off"
    /\ sync.pc \in {"done", "failed"}
    /\ sync' = [sync EXCEPT !.pc = "off", !.sweep = "list"]
    /\ UNCHANGED <<retry, Store, req, faults>>

NextPlanSweep ==
    \/ ChangePlanFind
    \/ ChangePlanMapping
    \/ ChangePlanEnhance
    \/ ChangePlanDb
    \/ SweepAfterChangePlan
    \/ SweepList
    \/ SweepNext
    \/ SyncFind
    \/ SyncFetchStripe
    \/ SyncFetchEnhance
    \/ SyncConverge
    \/ SyncWrite
    \/ SweepItemEnd
    \/ SweepReturn

SpecPlanSweep == PlanInit /\ [][NextPlanSweep]_vars

\* One delivery to the webhook intake runs beside one SubscriptionManager
\* call: syncSingleSubscription for sub_1, syncAllSubscriptions, or changePlan
\* for sub_1; the store is empty or holds the rows of an earlier checkout.
FrameInit ==
    /\ RetryIdle
    /\ webhook_logs = <<>>
    /\ EmptyStore \/ SeededStore("active", "active")
    /\ req = [d \in Deliveries |-> IdleFrame]
    /\ faults = 0
    /\ \/ sync = [SyncIdle EXCEPT !.pc = "find", !.stripeSubscriptionId = "sub_1"]
       \/ sync = [SyncIdle EXCEPT !.sweep = "list"]
       \/ \E price \in {"price_basic_monthly", "price_unknown"} :
             sync = [SyncIdle EXCEPT !.pc = "cp_find", !.stripeSubscriptionId = "sub_1",
                                     !.newStripePriceId = price]

NextFrame ==
    \/ Delivery("d1", IntakeEvents)
    \/ SweepList
    \/ SweepNext
    \/ SyncFind
    \/ SyncFetchStripe
    \/ SyncFetchEnhance
    \/ SyncConverge
    \/ SyncWrite
    \/ SweepItemEnd
    \/ SweepReturn
    \/ ChangePlanFind
    \/ ChangePlanMapping
    \/ ChangePlanEnhance
    \/ ChangePlanDb

SpecFrame == FrameInit /\ [][NextFrame]_vars

\* Two runs of syncAllSubscriptions, one after the other, while the payments
\* provider's subscriptions do not change; the first run returns or is cut off.
NextResume ==
    \/ SweepList
    \/ SweepNext
    \/ SyncFind
    \/ SyncFetchStripeSteady
    \/ SyncFetchEnhance
    \/ SyncConverge
    \/ SyncWrite
    \/ SweepItemEnd
    \/ SweepReturn
    \/ SweepAgain

\* The subscriptions of the store the two runs work on.
ResumeSubscriptionIds == <<"sub_1", "sub_2">>

ResumeInit ==
    /\ RetryIdle
    /\ webhook_logs = <<>>
    /\ \E n \in 1..Len(ResumeSubscriptionIds) :
          \E status \in [1..n -> SubscriptionStatus], es \in {"active", "suspended"} :
              SweepStore(n, status, es)
    /\ req = [d \in Deliveries |-> IdleFrame]
    /\ faults = 0
    /\ sync = [SyncIdle EXCEPT !.sweep = "list"]

SpecResume == ResumeInit /\ [][NextResume]_vars

\* The handler of a delivery has thrown: the delivery, whose ledger row is in
\* processing, is at the inner catch of POST with any error an operation may
\* throw.
AlertInit ==
    /\ RetryIdle
    /\ EmptyStore
    /\ faults = 0
    /\ sync = SyncIdle
    /\ \E event \in IntakeEvents, error \in ThrownErrors :
          /\ webhook_logs = updateWebhookStatus(
                                logWebhook(<<>>, [idempotency_key |-> idempotencyKey(event),
                                                  event_type |-> event.type, status |-> "received"]),
                                idempotencyKey(event), "processing", NULL)
          /\ req = [d \in Deliveries |->
                       IF d = "d1"
                       THEN [IdleFrame EXCEPT !.pc = "handle_error", !.event = event,
                                              !.signature = "valid", !.inserted = TRUE,
                                              !.dispatched = TRUE, !.ledgerWrites = 1,
                                              !.err = error]
                       ELSE IdleFrame]

NextAlert == HandleWebhookError("d1")

SpecAlert == AlertInit /\ [][NextAlert]_vars

\* Two concurrent deliveries of subscription-updated events for sub_1, which
\* the store holds in any status on either side.
RaceInit ==
    /\ RetryIdle
    /\ webhook_logs = <<>>
    /\ \E s \in {"active", "suspended"}, es \in {"active", "suspended"} : SeededStore(s, es)
    /\ req = [d \in Deliveries |-> IdleFrame]
    /\ faults = 0
    /\ sync = SyncIdle

NextRace ==
    \E d \in Deliveries :
        \/ Receive(d, RaceEvents)
        \/ CheckExists(d)
        \/ LogWebhook(d)
        \/ MarkProcessing(d)
        \/ UpdFind(d)
        \/ UpdAction(d)
        \/ UpdUpdate(d)
        \/ MarkSuccess(d)
        \/ HandleWebhookError(d)

SpecRace == RaceInit /\ [][NextRace]_vars

\* The Authorization headers a request arrives with: none, the empty text,
\* the Bearer scheme with the secret, with another credential and with the
\* text "undefined", the secret without the scheme, and the secret under the
\* scheme in lower case.
AuthorizationHeaders ==
    {[present |-> FALSE, value |-> <<>>]} \cup
    {[present |-> TRUE, value |-> v] :
        v \in {<<>>, <<"Bearer", "admin-secret">>, <<"Bearer", "guess">>, <<"Bearer", "undefined">>,
               <<"admin-secret">>, <<"bearer", "admin-secret">>}}

\* One request to an admin endpoint, against the store of an earlier
\* checkout, in a deployment with ADMIN_API_KEY set or not set.
AdminInit ==
    /\ RetryIdle
    /\ webhook_logs = <<>>
    /\ \E es \in {"active", "suspended"} : SeededStore("active", es)
    /\ req = [d \in Deliveries |-> IdleFrame]
    /\ faults = 0
    /\ \E key \in {"admin-secret", Unset}, authorization \in AuthorizationHeaders :
          \/ \E subscriptionId \in {"", "sub_1", "sub_9"} :
                sync = [SyncIdle EXCEPT !.admin =
                           [@ EXCEPT !.endpoint = "sync", !.pc = "auth", !.key = key,
                                     !.authorization = authorization,
                                     !.subscriptionId = subscriptionId]]
          \/ \E endpoint \in {"lookup", "update"},
                email \in {"", "owner@example.com", "new@example.com"},
                customerId \in {"", "cus_1", "cus_9"} :
                sync = [SyncIdle EXCEPT !.admin =
                           [@ EXCEPT !.endpoint = endpoint, !.pc = "auth", !.key = key,
                                     !.authorization = authorization,
                                     !.email = email, !.customerId = customerId]]

NextAdmin ==
    \/ AdminAuth
    \/ AdminSyncStart
    \/ SweepList
    \/ SweepNext
    \/ SyncFind
    \/ SyncFetchStripe
    \/ SyncFetchEnhance
    \/ SyncConverge
    \/ SyncWrite
    \/ SweepItemEnd
    \/ SweepReturn
    \/ AdminSyncReturn
    \/ AdminLookupCustomer
    \/ AdminLookupSubscriptions
    \/ AdminUpdateFind
    \/ AdminUpdateEnhance
    \/ AdminUpdateDb

SpecAdmin == AdminInit /\ [][NextAdmin]_vars

----------------------------------------------------------------------------
\* Properties of the webhook intake (Spec).

EventIds == {e.id : e \in IntakeEvents}

DeliveriesOf(id) == {d \in Deliveries : req[d].event.id = id}

LedgerRows(id) == {i \in 1..Len(webhook_logs) : webhook_logs[i].idempotency_key = <<"stripe", id>>}

NoEffects(f) ==
    /\ \A x \in Effects : f.effects[x] = 0
    /\ f.action = "none"
    /\ f.written = "none"

\* The delivery ended because its own INSERT of the ledger row met a store failure.
InsertFault(f) ==
    /\ f.response.stage = "log"
    /\ f.err.message /= UniqueViolation.message

\* C1: two deliveries of one event, under every interleaving of their steps,
\* leave at most one ledger row for stripe_<event id>; the row was inserted by
\* exactly one delivery, and every handler run, side effect and ledger write
\* belongs to that delivery. Once all deliveries of the event have ended and
\* one of them got past the signature check without a store failure on its
\* insert, the ledger holds exactly one row for the key.
C1_DuplicateDeliveriesCollapse ==
    \A id \in EventIds :
        /\ Cardinality(LedgerRows(id)) <= 1
        /\ Cardinality({d \in DeliveriesOf(id) : req[d].inserted}) = Cardinality(LedgerRows(id))
        /\ Cardinality({d \in DeliveriesOf(id) : req[d].dispatched}) <= 1
        /\ \A d \in DeliveriesOf(id) :
              ~req[d].inserted =>
                  /\ ~req[d].dispatched
                  /\ NoEffects(req[d])
                  /\ req[d].ledgerWrites = 0
        /\ ( /\ \A d \in DeliveriesOf(id) : req[d].pc = "done"
             /\ \E d \in DeliveriesOf(id) :
                   req[d].response.stage /= "signature" /\ ~InsertFault(req[d]) )
           => Cardinality(LedgerRows(id)) = 1

\* Both deliveries of one event passed the existence check before either had
\* inserted; one inserted and was answered 200, the other's insert was rejected.
C1_Witness ==
    /\ req["d1"].event.id = req["d2"].event.id
    /\ req["d1"].event.type = CHECKOUT
    /\ req["d1"].pc = "done" /\ req["d2"].pc = "done"
    /\ req["d1"].rowAtCheck = "none" /\ req["d2"].rowAtCheck = "none"
    /\ req["d1"].inserted /\ req["d1"].response.code = 200
    /\ req["d1"].effects["db.createSubscription"] = 1
    /\ req["d2"].response.stage = "log" /\ req["d2"].response.code = 500
    /\ req["d2"].err.message = UniqueViolation.message

\* C2: a delivery whose existence check finds a ledger row for its key, in
\* whatever status, is answered 200 with received: true; it runs no handler,
\* makes no provisioning call, writes no Customer or Subscription row and
\* does not write the ledger.
C2_ExistingKeyShortCircuits ==
    \A d \in Deliveries :
        req[d].rowAtCheck /= "none" =>
            /\ req[d].pc = "done"
            /\ req[d].response.code = 200
            /\ req[d].response.received
            /\ ~req[d].dispatched
            /\ ~req[d].inserted
            /\ NoEffects(req[d])
            /\ req[d].ledgerWrites = 0

\* A redelivery arrives while the first delivery is still in its handler.
C2_Witness ==
    /\ req["d2"].rowAtCheck = "processing"
    /\ req["d2"].response.code = 200
    /\ req["d1"].pc = "co_db_customer"
    /\ req["d1"].event.id = req["d2"].event.id

\* C4 (as claimed): for one accepted event, over all retry attempts of its
\* handler, each side effect is applied at most once.
C4_EachEffectAtMostOnce ==
    \A d \in Deliveries : \A x \in Effects : req[d].effects[x] <= 1

StatusStep(a, b) ==
    \/ a = b
    \/ a = "received" /\ b = "processing"
    \/ a = "processing" /\ b \in {"success", "error"}

\* C9: no ledger row is ever removed or re-keyed, and every row's status moves
\* only along received -> processing -> (success | error); a row in success or
\* error keeps its status.
C9_LedgerStatusOnlyForward ==
    [][\A i \in 1..Len(webhook_logs) :
          /\ i <= Len(webhook_logs')
          /\ webhook_logs'[i].idempotency_key = webhook_logs[i].idempotency_key
          /\ StatusStep(webhook_logs[i].status, webhook_logs'[i].status)]_vars

\* One event ended in error, another in success, each after its delivery.
C9_Witness ==
    /\ Len(webhook_logs) = 2
    /\ webhook_logs[1].status = "error"
    /\ webhook_logs[2].status = "success"
    /\ \A d \in Deliveries : req[d].pc = "done"

\* C10 (as claimed): once a delivery has recorded the ledger row of its event,
\* an error response to it is preceded by the row being set to error with a
\* non-empty error message.
C10_ErrorResponseMarksLedger ==
    \A d \in Deliveries :
        (req[d].pc = "done" /\ req[d].inserted /\ req[d].response.code >= 400) =>
            \A i \in LedgerRows(req[d].event.id) :
                /\ webhook_logs[i].status = "error"
                /\ webhook_logs[i].error_message /= NULL

----------------------------------------------------------------------------
\* Properties of the status mapping (SpecRecon).

\* The status table of the reconciliation engine ("none": no change).
TableTarget(status) ==
    CASE status = "active" -> "active"
      [] status = "past_due" -> "suspended"
      [] status = "unpaid" -> "suspended"
      [] status = "canceled" -> "canceled"
      [] status = "incomplete_expired" -> "canceled"
      [] OTHER -> "none"

\* C3: in handleSubscriptionUpdated and in syncSingleSubscription the target
\* internal status follows the table (active -> active; past_due, unpaid ->
\* suspended; canceled, incomplete_expired -> canceled); for any other provider
\* status no provisioning action is invoked and no internal status is written.
C3_StatusMappingTable ==
    /\ \A d \in Deliveries :
          req[d].event.type = SUB_UPDATED =>
              LET target == TableTarget(req[d].event.status) IN
              /\ req[d].written \in {"none", target}
              /\ req[d].newStatus \in {"none", target}
              /\ target = "none" => NoEffects(req[d])
              /\ (req[d].pc = "success" /\ target /= "none") => req[d].written = target
    /\ sync.stripeStatus /= "none" =>
          LET target == TableTarget(sync.stripeStatus) IN
          /\ sync.targetStatus \in {"none", target}
          /\ sync.written \in {"none", target}
          /\ target = "none" => (sync.action = "none" /\ sync.written = "none")
          /\ (sync.pc = "done" /\ target /= "none") =>
                /\ sync.targetStatus = target
                /\ sync.written = "none" => sync.dbSubscription.status = target
                /\ sync.action = "none" => sync.enhanceStatus = target

\* An update to unpaid has suspended the subscription, and a sync that read
\* incomplete_expired has written canceled.
C3_Witness ==
    /\ req["d1"].event.type = SUB_UPDATED
    /\ req["d1"].event.status = "unpaid"
    /\ req["d1"].pc = "done"
    /\ req["d1"].written = "suspended"
    /\ sync.pc = "done"
    /\ sync.stripeStatus = "incomplete_expired"
    /\ sync.written = "canceled"

----------------------------------------------------------------------------
\* Properties of withRetry (SpecRetry).

RetryableCategories == {EXTERNAL_API, DATABASE}

\* C5: an operation that fails k times with retryable errors and then succeeds,
\* under maxAttempts > k: withRetry returns the success value after exactly
\* k + 1 invocations.
C5_RetrySucceedsAfterKFailures ==
    (retry.pc = "done" /\ ~retry.sawNonRetryable /\ retry.maxRetries > retry.k) =>
        /\ retry.result = "ok"
        /\ retry.calls = retry.k + 1
        /\ retry.thrown = NoError

C5_Witness ==
    /\ retry.pc = "done"
    /\ retry.k = 2
    /\ retry.maxRetries = 3
    /\ retry.result = "ok"
    /\ retry.calls = 3

C7_OnlyRetryableCategoriesRetried ==
    LET category == categorizeError(retry.lastError).category IN
    /\ retry.pc = "sleep" => category \in RetryableCategories
    /\ (retry.failures >= 1 /\ retry.pc /= "caught"
            /\ category \in {VALIDATION, AUTHENTICATION, BUSINESS_LOGIC}) =>
          /\ retry.pc = "done"
          /\ retry.result = "fail"
          /\ retry.calls = retry.failures
          /\ retry.thrown.category = category

C7_Witness ==
    /\ retry.pc = "done"
    /\ retry.maxRetries = 4
    /\ retry.k = 3
    /\ retry.calls = 1
    /\ retry.result = "fail"
    /\ ~retry.lastError.app
    /\ retry.thrown.category = AUTHENTICATION

\* C8: the delay awaited after failed attempt i (1 <= i < maxAttempts) is at
\* least baseDelay * 2^(i-1) and at most baseDelay * 2^(i-1) + 1000.
C8_BackoffDelayBounds ==
    /\ Len(retry.delays) < retry.maxRetries
    /\ \A i \in 1..Len(retry.delays) :
          /\ retry.delays[i] >= retry.baseDelay * 2 ^ (i - 1)
          /\ retry.delays[i] <= retry.baseDelay * 2 ^ (i - 1) + 1000

C8_Witness ==
    /\ Len(retry.delays) = 3
    /\ retry.baseDelay = 2000
    /\ retry.delays[3] = 8999
    /\ retry.delays[1] = 2000

----------------------------------------------------------------------------
\* The responses of the intake (Spec).

\* The error a delivery surfaced is the one raised with message m.
Surfaced(f, m) == f.response.code /= 200 /\ f.err.message = m

\* C11: a delivery is answered 200 with received: true when its processing
\* succeeded (the ledger row was set to success) or its key was already
\* recorded, and only then; a failure is answered 400 exactly when the error
\* that surfaced is classified Validation (the missing signature header, an
\* error whose message holds "invalid") and 500 otherwise (a bad signature, a
\* connection error, a rejected INSERT); the body of an error response
\* carries the retryable flag of the classified error.
C11_ResponseCodes ==
    \A d \in Deliveries :
        LET f == req[d]
            appError == categorizeError(f.err)
        IN f.pc = "done" =>
            /\ f.response.code \in {200, 400, 500}
            /\ f.response.code = 200 <=> f.response.received
            /\ f.response.code = 200 <=> f.err = NoError
            /\ f.response.code = 200 =>
                  \/ f.rowAtCheck /= "none" /\ ~f.dispatched
                  \/ /\ f.dispatched
                     /\ \A i \in LedgerRows(f.event.id) : webhook_logs[i].status = "success"
            /\ f.rowAtCheck /= "none" => f.response.code = 200
            /\ f.response.code = 400 <=> (f.err /= NoError /\ appError.category = VALIDATION)
            /\ f.response.code = 500 <=> (f.err /= NoError /\ appError.category /= VALIDATION)
            /\ f.response.code /= 200 =>
                  /\ f.response.retryable = appError.retryable
                  /\ f.response.category = appError.category
            /\ Surfaced(f, {"invalid"}) => f.response.code = 400 /\ ~f.response.retryable
            /\ Surfaced(f, {"connection"}) => f.response.code = 500 /\ f.response.retryable
            /\ Surfaced(f, {"duplicate key"}) => f.response.code = 500 /\ ~f.response.retryable
            /\ f.response.stage = "signature" =>
                  /\ f.response.code = (IF f.err.category = VALIDATION THEN 400 ELSE 500)
                  /\ f.err.category \in {VALIDATION, AUTHENTICATION}

\* One delivery was refused 400 for an "invalid" answer of the provisioning
\* API met in its handler, the other 500 and retryable after a connection error.
C11_Witness ==
    /\ req["d1"].pc = "done" /\ req["d2"].pc = "done"
    /\ req["d1"].response.code = 400
    /\ req["d1"].response.stage = "handler"
    /\ req["d1"].err.message = {"invalid"}
    /\ req["d2"].response.code = 500
    /\ req["d2"].response.retryable
    /\ req["d2"].err.category = DATABASE

\* C12: a delivery of a subscription-updated event with status past_due that
\* finds the Subscription, internally active, calls EnhanceService's suspend
\* and then writes the internal status suspended (once each when no step of
\* it failed); a later delivery of the same event id finds the ledger row and
\* makes no provisioning call and no status write.
C12_PastDueSuspendsAndRedeliveryIsSilent ==
    \A d \in Deliveries :
        LET f == req[d] IN
        ( /\ f.event.type = SUB_UPDATED
          /\ f.event.status = "past_due"
          /\ f.subscription.id /= 0
          /\ f.subscription.status = "active" ) =>
            /\ f.newStatus = "suspended"
            /\ f.pc = "upd_update" => (f.action = "suspend" /\ f.effects["enhance.action"] >= 1)
            /\ (f.pc = "success" \/ (f.pc = "done" /\ f.response.code = 200)) =>
                  /\ f.action = "suspend"
                  /\ f.written = "suspended"
                  /\ f.attempt = 1 =>
                        /\ f.effects["enhance.action"] = 1
                        /\ f.effects["db.updateSubscriptionStatus"] = 1
            /\ \A o \in Deliveries \ {d} :
                  req[o].event.id = f.event.id =>
                      /\ NoEffects(req[o])
                      /\ ~req[o].dispatched
                      /\ (req[o].pc = "done" /\ req[o].rowAtCheck /= "none") =>
                            req[o].response.code = 200

\* The first delivery suspended sub_1; the second arrived after it had ended.
C12_Witness ==
    /\ req["d1"].event.type = SUB_UPDATED
    /\ req["d1"].event.status = "past_due"
    /\ req["d1"].subscription.id /= 0
    /\ req["d1"].subscription.status = "active"
    /\ req["d1"].pc = "done"
    /\ req["d1"].response.code = 200
    /\ req["d1"].effects["enhance.action"] = 1
    /\ req["d1"].written = "suspended"
    /\ req["d2"].event.id = req["d1"].event.id
    /\ req["d2"].rowAtCheck = "success"
    /\ req["d2"].pc = "done"
    /\ subscriptions[1].status = "suspended"
    /\ enhance.subscriptions[1].status = "suspended"

----------------------------------------------------------------------------
\* Properties of the handlers (Spec).

\* Rows of a table linked to a payments-provider id.
CustomerRowsOf(stripeCustomerId) ==
    {i \in 1..Len(customers) : customers[i].stripe_customer_id = stripeCustomerId}

SubscriptionRowsOf(stripeSubscriptionId) ==
    {i \in 1..Len(subscriptions) : subscriptions[i].stripe_subscription_id = stripeSubscriptionId}

\* C13: a delivery of a checkout-completion event that found no Customer for
\* the external customer id, found the plan mapping of its price and ran its
\* handler to the end with no failing step has created exactly one Customer
\* row and exactly one Subscription row; the Subscription row belongs to that
\* Customer, carries the mapped plan (price_pro_monthly -> pro-hosting-plan)
\* and was inserted with status active.
C13_CheckoutCreatesCustomerAndSubscription ==
    \A d \in Deliveries :
        LET f == req[d] IN
        ( /\ f.event.type = CHECKOUT
          /\ f.dispatched
          /\ f.attempt = 1
          /\ f.effects["enhance.createCustomer"] >= 1
          /\ f.pc = "success" \/ (f.pc = "done" /\ f.response.code = 200) ) =>
            /\ \A x \in {"enhance.createCustomer", "db.createCustomer",
                          "enhance.createSubscription", "db.createSubscription"} :
                  f.effects[x] = 1
            /\ Len(customers) = 1
            /\ Len(subscriptions) = 1
            /\ Cardinality(CustomerRowsOf(f.event.customer)) = 1
            /\ Cardinality(SubscriptionRowsOf(f.event.subscription)) = 1
            /\ enhance.customers = 1
            /\ Len(enhance.subscriptions) = 1
            /\ \A i \in SubscriptionRowsOf(f.event.subscription) :
                  /\ subscriptions[i].customer_id \in
                        {customers[c].id : c \in CustomerRowsOf(f.event.customer)}
                  /\ f.event.price = "price_pro_monthly" =>
                        subscriptions[i].enhance_plan_id = "pro-hosting-plan"
                  /\ enhance.subscriptions[subscriptions[i].enhance_subscription_id].planId =
                        subscriptions[i].enhance_plan_id
                  /\ (\A o \in Deliveries : req[o].written = "none") =>
                        subscriptions[i].status = "active"

\* The checkout of cus_1 ran on an empty store and was answered 200.
C13_Witness ==
    /\ req["d1"].event.type = CHECKOUT
    /\ req["d1"].pc = "done"
    /\ req["d1"].response.code = 200
    /\ req["d1"].attempt = 1
    /\ req["d1"].effects["db.createCustomer"] = 1
    /\ req["d2"].pc = "idle"
    /\ Len(customers) = 1
    /\ Len(subscriptions) = 1
    /\ subscriptions[1].status = "active"
    /\ subscriptions[1].enhance_plan_id = "pro-hosting-plan"

\* C14: a delivery of a subscription-deleted event whose external subscription
\* id matches no Subscription row makes no provisioning call and no
\* Subscription write, and its handler raises no error: the delivery goes on to
\* the success update of the ledger row, and unless that update meets a store
\* failure the row ends as success and the answer is 200.
C14_DeleteOfUnknownSubscriptionIsNoOp ==
    \A d \in Deliveries :
        LET f == req[d] IN
        ( /\ f.event.type = SUB_DELETED
          /\ f.dispatched
          /\ f.pc /= "del_find"
          /\ f.subscription.id = 0 ) =>
            /\ NoEffects(f)
            /\ f.attempt = 1
            /\ f.pc \in {"success", "handle_error", "done"}
            /\ f.pc = "handle_error" => f.err \in InjectedErrors
            /\ f.pc = "done" =>
                  \/ /\ f.response.code = 200
                     /\ f.err = NoError
                     /\ \A i \in LedgerRows(f.event.id) : webhook_logs[i].status = "success"
                  \/ /\ f.response.stage \in {"handler", "handle_error"}
                     /\ f.err.message \in {e.message : e \in InjectedErrors}
                     /\ faults >= 1
            /\ (f.pc = "done" /\ faults = 0) => f.response.code = 200

\* The deletion of sub_1 arrived on a store that holds no subscription.
C14_Witness ==
    /\ req["d1"].event.type = SUB_DELETED
    /\ req["d1"].dispatched
    /\ req["d1"].subscription.id = 0
    /\ req["d1"].pc = "done"
    /\ req["d1"].response.code = 200
    /\ subscriptions = <<>>
    /\ Len(webhook_logs) = 1
    /\ webhook_logs[1].status = "success"
    /\ faults = 0

----------------------------------------------------------------------------
\* Properties of the reconciliation paths (SpecRecon).

\* The delivery has run its handler to the end.
HandlerReturned(f) == f.pc = "success" \/ (f.pc = "done" /\ f.response.code = 200)

\* C16: a delivery of a subscription-deleted event that finds the Subscription
\* calls EnhanceService's suspend and then writes the internal status
\* canceled, whatever the internal status and the provisioning status were:
\* no step of the handler is skipped.
C16_DeletionSuspendsAndCancels ==
    \A d \in Deliveries :
        LET f == req[d] IN
        (f.event.type = SUB_DELETED /\ f.subscription.id /= 0) =>
            /\ f.pc \in {"del_suspend", "del_update", "success", "handle_error", "done"}
            /\ f.pc = "del_update" =>
                  /\ f.action = "suspend"
                  /\ f.effects["enhance.action"] >= 1
            /\ HandlerReturned(f) =>
                  /\ f.action = "suspend"
                  /\ f.written = "canceled"
                  /\ f.effects["enhance.action"] >= 1
                  /\ f.effects["db.updateSubscriptionStatus"] >= 1
                  /\ f.attempt = 1 =>
                        /\ f.effects["enhance.action"] = 1
                        /\ f.effects["db.updateSubscriptionStatus"] = 1

\* The deleted subscription was already canceled internally and suspended in
\* the provisioning system: suspend was called and canceled written all the same.
C16_Witness ==
    /\ req["d1"].event.type = SUB_DELETED
    /\ req["d1"].subscription.id /= 0
    /\ req["d1"].subscription.status = "canceled"
    /\ req["d1"].enhanceBefore = "suspended"
    /\ req["d1"].action = "suspend"
    /\ req["d1"].written = "canceled"
    /\ req["d1"].pc = "done"
    /\ req["d1"].response.code = 200

\* The EnhanceService call the status table names for a target status.
TableAction(target) == IF target = "active" THEN "reactivate" ELSE "suspend"

\* C17 (as claimed): in handleSubscriptionUpdated the provisioning action is
\* invoked only when the provisioning status differs from the target, and the
\* internal status is written to the target in every mapped case.
C17_ActionOnlyWhenProvisioningDiffers ==
    \A d \in Deliveries :
        LET f == req[d]
            target == TableTarget(f.event.status)
        IN f.event.type = SUB_UPDATED =>
            /\ f.action /= "none" => f.enhanceBefore /= target
            /\ (HandlerReturned(f) /\ f.subscription.id /= 0 /\ target /= "none") =>
                  f.written = target

\* C17 (amended): in handleSubscriptionUpdated, for a Subscription that is
\* found and a mapped status, the provisioning action of the case (reactivate
\* for active, suspend otherwise) is invoked whatever the provisioning status
\* is, and then the internal status is written to the target.
C17_ActionInvokedInEveryMappedCase ==
    \A d \in Deliveries :
        LET f == req[d]
            target == TableTarget(f.event.status)
        IN (f.event.type = SUB_UPDATED /\ f.subscription.id /= 0) =>
            /\ target /= "none"
            /\ f.pc \in {"upd_action", "upd_update", "success", "handle_error", "done"}
            /\ f.pc = "upd_update" =>
                  /\ f.action = TableAction(target)
                  /\ f.effects["enhance.action"] >= 1
            /\ HandlerReturned(f) =>
                  /\ f.action = TableAction(target)
                  /\ f.effects["enhance.action"] >= 1
                  /\ f.written = target
                  /\ f.attempt = 1 => f.effects["enhance.action"] = 1

\* An update to active reactivated a subscription the provisioning system
\* already had as active.
C17_Witness ==
    /\ req["d1"].event.type = SUB_UPDATED
    /\ req["d1"].event.status = "active"
    /\ req["d1"].subscription.id /= 0
    /\ req["d1"].enhanceBefore = "active"
    /\ req["d1"].action = "reactivate"
    /\ req["d1"].written = "active"
    /\ req["d1"].pc = "done"
    /\ req["d1"].response.code = 200

\* C18: in syncSingleSubscription with a mapped payments status, a provisioning
\* action is invoked iff the provisioning status read differs from the target,
\* and the internal status is written iff the internal status read differs
\* from the target; neither decision depends on the other.
C18_SyncConvergesEachSideIndependently ==
    sync.targetStatus /= "none" =>
        /\ sync.pc \in {"write", "done"} =>
              (sync.action /= "none" <=> sync.enhanceStatus /= sync.targetStatus)
        /\ sync.pc = "done" =>
              (sync.written /= "none" <=> sync.dbSubscription.status /= sync.targetStatus)
        /\ sync.written /= "none" => sync.written = sync.targetStatus
        /\ sync.pc = "failed" => sync.written = "none"

\* The provisioning system was brought to the target while the internal
\* record, already there, was left alone.
C18_Witness ==
    /\ sync.pc = "done"
    /\ sync.targetStatus = "suspended"
    /\ sync.enhanceStatus = "active"
    /\ sync.dbSubscription.status = "suspended"
    /\ sync.action = "suspend"
    /\ sync.written = "none"

\* C19 (as claimed): in syncSingleSubscription, when the target is canceled and
\* the provisioning status differs, the provisioning action is suspend.
C19_SyncCanceledSuspends ==
    (sync.targetStatus = "canceled" /\ sync.action /= "none") => sync.action = "suspend"

\* C19 (amended): in syncSingleSubscription, when the target is canceled and
\* the provisioning status differs, the provisioning action invoked is
\* EnhanceService.cancelSubscription (DELETE of the subscription); suspend is
\* invoked only for the target suspended, reactivate only for active.
C19_SyncCanceledCancels ==
    /\ (sync.targetStatus = "canceled" /\ sync.pc \in {"write", "done"}
            /\ sync.enhanceStatus /= "canceled") => sync.action = "cancel"
    /\ sync.action = "cancel" => sync.targetStatus = "canceled"
    /\ sync.action = "suspend" => sync.targetStatus = "suspended"
    /\ sync.action = "reactivate" => sync.targetStatus = "active"

\* A sync that read incomplete_expired deleted a suspended subscription.
C19_Witness ==
    /\ sync.pc = "done"
    /\ sync.stripeStatus = "incomplete_expired"
    /\ sync.enhanceStatus = "suspended"
    /\ sync.action = "cancel"

----------------------------------------------------------------------------
\* Properties of the sweep (SpecSweep).

\* C15: syncAllSubscriptions hands every subscription of its list to
\* syncSingleSubscription, in order, whether or not earlier ones failed: while
\* it loops, synced count plus collected errors is the number of items dealt
\* with, and when it returns after the list was fetched that sum is the
\* length of the list. The summary's success is true iff the error list is empty.
C15_SweepAttemptsEveryItem ==
    /\ (sync.sweep = "loop" /\ sync.pc = "off") =>
          /\ sync.syncedCount + Len(sync.errors) = sync.index - 1
          /\ Len(sync.attempted) = sync.index - 1
    /\ (sync.sweep = "returned" /\ sync.index > 0) =>
          /\ sync.syncedCount + Len(sync.errors) = Len(sync.list)
          /\ sync.attempted = [k \in 1..Len(sync.list) |-> sync.list[k].stripe_subscription_id]
    /\ sync.sweep = "returned" => (sync.success <=> Len(sync.errors) = 0)
    /\ (sync.sweep = "returned" /\ sync.index = 0) => (~sync.success /\ sync.syncedCount = 0)

\* Of two listed subscriptions the first failed and the second was synced.
C15_Witness ==
    /\ sync.sweep = "returned"
    /\ Len(sync.list) = 2
    /\ Len(sync.errors) = 1
    /\ sync.errors[1][1] = sync.list[1].stripe_subscription_id
    /\ sync.syncedCount = 1
    /\ ~sync.success

----------------------------------------------------------------------------
\* Properties of changePlan (SpecPlan).

\* C20: changePlan updates the provisioning plan before the internal one. When
\* the provisioning update fails both plans are unchanged; when the internal
\* update fails after it, the provisioning system keeps the new plan and the
\* internal record the old one; the internal record never holds a new plan
\* that the provisioning system does not hold.
C20_ProvisioningPlanUpdatedFirst ==
    LET old == "pro-hosting-plan"
        internal == subscriptions[1].enhance_plan_id
        provisioned == enhance.subscriptions[1].planId
    IN
    /\ sync.failedAt \in {"find", "mapping", "enhance"} =>
          (internal = old /\ provisioned = old)
    /\ sync.pc \in {"cp_find", "cp_mapping", "cp_enhance"} =>
          (internal = old /\ provisioned = old)
    /\ sync.pc = "cp_db" => (internal = old /\ provisioned = sync.newPlan)
    /\ sync.failedAt = "db" => (internal = old /\ provisioned = sync.newPlan)
    /\ sync.pc = "done" => (internal = sync.newPlan /\ provisioned = sync.newPlan)
    /\ internal /= old => provisioned = internal
    /\ sync.newPlan /= "" =>
          sync.newPlan \in {m.enhance_plan_id :
                               m \in {x \in PlanMappings : x.billing_plan_id = sync.newStripePriceId}}

\* The change to the enterprise plan reached the provisioning system and then
\* failed on the internal update.
C20_Witness ==
    /\ sync.pc = "failed"
    /\ sync.failedAt = "db"
    /\ sync.newStripePriceId = "price_enterprise_monthly"
    /\ enhance.subscriptions[1].planId = "enterprise-hosting-plan"
    /\ subscriptions[1].enhance_plan_id = "pro-hosting-plan"

----------------------------------------------------------------------------
\* Properties of the classifier (SpecRetry).

\* The keyword groups of the classification contract, in the order of testing.
KeywordGroups ==
    <<[words |-> {"fetch", "network", "timeout"}, category |-> EXTERNAL_API, retryable |-> TRUE],
      [words |-> {"database", "sql", "connection"}, category |-> DATABASE, retryable |-> TRUE],
      [words |-> {"unauthorized", "forbidden", "token"}, category |-> AUTHENTICATION,
       retryable |-> FALSE],
      [words |-> {"validation", "invalid", "required"}, category |-> VALIDATION,
       retryable |-> FALSE],
      [words |-> MessageWords \cup {"<none>"}, category |-> SYSTEM, retryable |-> FALSE]>>

\* The first group one of whose words the lower-cased message holds; the last
\* group stands for "no match".
FirstGroup(message) ==
    LET lower == {ToLowerCase(w) : w \in message}
        hits == {i \in 1..4 : KeywordGroups[i].words \cap lower /= {}}
    IN IF hits = {} THEN KeywordGroups[5]
       ELSE KeywordGroups[CHOOSE i \in hits : \A j \in hits : i <= j]

\* C23: what withRetry throws for a failure that is not pre-classified
\* carries the failure's message and the category and retryable flag of the
\* first keyword group, in the order network, database, authentication,
\* validation, that matches the lower-cased message (System, not retryable,
\* when none does); it sleeps for another attempt only when that group is
\* retryable.
C23_ClassifiedByFirstMatchingGroup ==
    ~retry.lastError.app =>
        LET group == FirstGroup(retry.lastError.message) IN
        /\ (retry.pc = "done" /\ retry.result = "fail") =>
              /\ retry.thrown.app
              /\ retry.thrown.message = retry.lastError.message
              /\ retry.thrown.category = group.category
              /\ retry.thrown.retryable = group.retryable
        /\ retry.pc = "sleep" => group.retryable

\* A message with a network and a database keyword was classified ExternalApi.
C23_Witness ==
    /\ retry.pc = "done"
    /\ retry.result = "fail"
    /\ ~retry.lastError.app
    /\ retry.lastError.message = {"network", "database"}
    /\ retry.thrown.category = EXTERNAL_API
    /\ retry.calls = retry.maxRetries

\* C24: a failure that is an AppError is thrown by withRetry as it is, with
\* its category, severity and retryable flag, whatever its message holds; an
\* AppError built with retryable = false ends withRetry on the attempt that
\* raised it, even when its message holds timeout or connection.
C24_PreClassifiedErrorKept ==
    (retry.lastError.app /\ retry.pc /= "caught") =>
        /\ (retry.pc = "done" /\ retry.result = "fail") => retry.thrown = retry.lastError
        /\ (~retry.lastError.retryable /\ retry.lastError.message \cap {"timeout", "connection"} /= {}) =>
              /\ retry.pc = "done"
              /\ retry.result = "fail"
              /\ retry.calls = retry.failures
              /\ Len(retry.delays) = retry.failures - 1

\* A Validation AppError whose message holds "timeout" ended withRetry at once.
C24_Witness ==
    /\ retry.pc = "done"
    /\ retry.lastError.app
    /\ retry.lastError.category = VALIDATION
    /\ retry.lastError.message = {"timeout"}
    /\ ~retry.lastError.retryable
    /\ retry.calls = 1
    /\ retry.maxRetries = 4
    /\ retry.thrown = retry.lastError

----------------------------------------------------------------------------
\* Properties of the intake's gates (Spec).

\* C25: a delivery whose stripe-signature header is missing or does not verify
\* ends at once: it inserts no ledger row, does not look the key up, runs no
\* handler and applies no side effect. The missing header is a Validation
\* error answered 400; the failed verification is an Authentication error,
\* not retryable, answered 500.
C25_BadSignatureStopsTheDelivery ==
    \A d \in Deliveries :
        LET f == req[d] IN
        f.signature \in {"missing", "invalid"} =>
            /\ f.pc = "done"
            /\ f.response.stage = "signature"
            /\ ~f.inserted
            /\ ~f.dispatched
            /\ f.rowAtCheck = "none"
            /\ f.ledgerWrites = 0
            /\ NoEffects(f)
            /\ ~f.response.retryable
            /\ f.signature = "missing" =>
                  (f.err.category = VALIDATION /\ f.response.code = 400)
            /\ f.signature = "invalid" =>
                  (f.err.category = AUTHENTICATION /\ f.response.code = 500)
            /\ (\A o \in Deliveries : req[o].signature /= "valid") =>
                  (webhook_logs = <<>> /\ faults = 0)

\* One delivery came without the header, the other with a bad signature.
C25_Witness ==
    /\ req["d1"].signature = "missing"
    /\ req["d1"].response.code = 400
    /\ req["d2"].signature = "invalid"
    /\ req["d2"].response.code = 500
    /\ req["d2"].err.category = AUTHENTICATION
    /\ webhook_logs = <<>>

\* C27 (as claimed): an INSERT of a ledger row whose key exists fails with a
\* Database-category error, adds no second row and leaves the existing row.
C27_DuplicateInsertIsDatabaseError ==
    \A d \in Deliveries :
        LET f == req[d] IN
        (f.response.stage = "log" /\ f.err.message = UniqueViolation.message) =>
            /\ f.err.category = DATABASE
            /\ ~f.inserted
            /\ Cardinality(LedgerRows(f.event.id)) = 1

\* C28: every step that calls the provisioning system or writes a Customer or
\* Subscription row is a step of a delivery that has inserted the ledger row
\* of its event, the row being in the ledger; a delivery whose insert failed
\* takes no such step.
C28_EffectsOnlyAfterLedgerInsert ==
    [][(customers' /= customers \/ subscriptions' /= subscriptions \/ enhance' /= enhance) =>
          \E d \in Deliveries :
              /\ req'[d] /= req[d]
              /\ req[d].inserted
              /\ req[d].dispatched
              /\ LedgerRows(req[d].event.id) /= {}]_vars

\* One delivery has inserted its row and created the provisioning customer;
\* the other gave up on its insert after three connection errors, with no effect.
C28_Witness ==
    /\ req["d1"].inserted
    /\ req["d1"].effects["enhance.createCustomer"] = 1
    /\ req["d1"].pc = "co_db_customer"
    /\ req["d2"].response.stage = "log"
    /\ req["d2"].err.category = DATABASE
    /\ ~req["d2"].inserted
    /\ NoEffects(req["d2"])
    /\ enhance.customers = 1

\* Side effects of one kind applied by all deliveries together.
TotalEffects(x) == req["d1"].effects[x] + req["d2"].effects[x]

\* C29: the checkout handler runs its steps in the order create provisioning
\* customer, insert Customer, resolve the plan, create provisioning
\* subscription, insert Subscription: a step is reached only with the results
\* of the steps before it, a step that fails in the first attempt leaves every
\* later step undone, and nothing an earlier step created is removed again.
C29_CheckoutStepsInOrder ==
    /\ \A d \in Deliveries :
          LET f == req[d]
              e == f.effects
          IN f.event.type = CHECKOUT =>
              /\ f.pc = "co_db_customer" => (f.enhanceCustomer /= 0 /\ f.customer.id = 0)
              /\ f.pc = "co_plan" => f.customer.id /= 0
              /\ f.pc = "co_enhance_subscription" => (f.customer.id /= 0 /\ f.plan /= "")
              /\ f.pc = "co_db_subscription" =>
                    (f.customer.id /= 0 /\ f.plan /= "" /\ f.enhanceSubscription /= 0)
              /\ e["db.createCustomer"] <= e["enhance.createCustomer"]
              /\ e["db.createSubscription"] <= e["enhance.createSubscription"]
              /\ e["enhance.createSubscription"] >= 1 => CustomerRowsOf(f.event.customer) /= {}
              /\ (f.attempt = 1 /\ e["enhance.createCustomer"] >= 1) =>
                    /\ \A x \in Effects : e[x] <= 1
                    /\ e["enhance.createSubscription"] <= e["db.createCustomer"]
                    /\ e["db.createCustomer"] = 0 => f.plan = ""
    /\ TotalEffects("enhance.createCustomer") >= 1 =>
          /\ enhance.customers = TotalEffects("enhance.createCustomer")
          /\ Len(customers) = TotalEffects("db.createCustomer")
    /\ Len(enhance.subscriptions) - TotalEffects("enhance.createSubscription") \in {0, 1}
    /\ Len(subscriptions) - TotalEffects("db.createSubscription") \in {0, 1}

\* The first attempt created the provisioning customer and failed on the
\* Customer insert; the second created another provisioning customer, and the
\* first one is still there.
C29_Witness ==
    /\ req["d1"].event.type = CHECKOUT
    /\ req["d1"].attempt = 2
    /\ req["d1"].pc = "co_db_customer"
    /\ req["d1"].effects["enhance.createCustomer"] = 2
    /\ req["d1"].effects["db.createCustomer"] = 0
    /\ enhance.customers = 2
    /\ customers = <<>>

----------------------------------------------------------------------------
\* Properties of the plan-mapping lookup (SpecPlan).

\* C22: when the plan-mapping lookup of changePlan finds no mapping for the
\* (stripe, price id) pair, the failure raised has category BusinessLogic and
\* is not retryable (also after classification by categorizeError, which keeps
\* an error that carries a category), and changePlan is not run again: no
\* provisioning call and no store write follow.
C22_NoMappingIsBusinessLogic ==
    sync.failedAt = "mapping" =>
        /\ categorizeError(sync.err).category = BUSINESS_LOGIC
        /\ ~categorizeError(sync.err).retryable
        /\ sync.action = "none"
        /\ sync.written = "none"

\* C21: when changePlan updated the provisioning plan and its internal update
\* failed, a bulk sync that follows and syncs the subscription leaves the
\* internal record's plan equal to the provisioning system's plan, which is
\* still the new plan (the provisioning plan is never put back).
C21_SweepHealsPlan ==
    (/\ sync.failedAt = "db"
     /\ sync.sweep = "returned"
     /\ sync.syncedCount = 1) =>
        /\ enhance.subscriptions[1].planId = sync.newPlan
        /\ subscriptions[1].enhance_plan_id = enhance.subscriptions[1].planId

----------------------------------------------------------------------------
\* Properties of the admin endpoints (SpecAdmin).

\* The request's Authorization header is the text Bearer followed by the
\* admin secret the deployment is configured with.
BearsTheSecret(a) ==
    /\ a.key /= Unset
    /\ a.authorization.present
    /\ a.authorization.value = <<"Bearer", a.key>>

\* C26: in a deployment with an admin secret configured, a request to the
\* manual sync trigger, the customer lookup or the customer update whose
\* Authorization header is not Bearer followed by that secret is answered 401
\* and nothing else: the endpoint reads no row and makes no provisioning call,
\* no syncSingleSubscription or syncAllSubscriptions is started, and no step
\* of the request changes the store or the provisioning system.
C26_AdminEndpointsRequireTheSecret ==
    /\ [](LET a == sync.admin IN
          (a.key /= Unset /\ ~BearsTheSecret(a)) =>
              /\ a.pc \in {"auth", "returned"}
              /\ a.pc = "returned" => a.code = 401
              /\ a.reads = 0
              /\ a.calls = 0
              /\ sync.pc = "off"
              /\ sync.sweep = "off"
              /\ sync.attempted = <<>>
              /\ sync.action = "none"
              /\ sync.written = "none")
    /\ [][(sync.admin.key /= Unset /\ ~BearsTheSecret(sync.admin)) =>
              UNCHANGED <<webhook_logs, customers, subscriptions, enhance>>]_vars

\* A customer update for the known customer cus_1, carrying a Bearer
\* credential that is not the secret, has been answered 401.
C26_Witness ==
    /\ sync.admin.endpoint = "update"
    /\ sync.admin.key = "admin-secret"
    /\ sync.admin.authorization.value = <<"Bearer", "guess">>
    /\ sync.admin.customerId = "cus_1"
    /\ sync.admin.email = "new@example.com"
    /\ sync.admin.pc = "returned"
    /\ sync.admin.code = 401
    /\ customers[1].email = "owner@example.com"

----------------------------------------------------------------------------
\* Properties of one delivery beside one SubscriptionManager call (SpecFrame).

\* The step adds a provisioning customer, a provisioning subscription, an
\* internal Customer row or an internal Subscription row.
Creates ==
    \/ enhance'.customers /= enhance.customers
    \/ Len(enhance'.subscriptions) /= Len(enhance.subscriptions)
    \/ Len(customers') /= Len(customers)
    \/ Len(subscriptions') /= Len(subscriptions)

\* C30: every step that creates a provisioning customer, a provisioning
\* subscription, an internal Customer row or an internal Subscription row is a
\* step of the checkout-completion handler; no step of the subscription-updated
\* handler, the subscription-deleted handler, syncSingleSubscription,
\* syncAllSubscriptions or changePlan creates any of them, whether or not the
\* subscription they are called for exists.
C30_OnlyCheckoutCreates ==
    [][Creates =>
          /\ req["d1"].event.type = CHECKOUT
          /\ req["d1"].pc \in {"co_enhance_customer", "co_db_customer",
                               "co_enhance_subscription", "co_db_subscription"}
          /\ req'["d1"] /= req["d1"]
          /\ sync' = sync]_vars

\* On a store that was empty, the checkout has created the four records and
\* the sweep beside it, which found the new subscription, has returned.
C30_Witness ==
    /\ req["d1"].event.type = CHECKOUT
    /\ req["d1"].pc = "done"
    /\ req["d1"].response.code = 200
    /\ enhance.customers = 1
    /\ Len(enhance.subscriptions) = 1
    /\ Len(customers) = 1
    /\ Len(subscriptions) = 1
    /\ sync.sweep = "returned"
    /\ sync.attempted = <<"sub_1">>
    /\ req["d1"].effects["db.createCustomer"] = 1
    /\ req["d1"].effects["db.createSubscription"] = 1

----------------------------------------------------------------------------
\* Event types without a handler (Spec).

\* The types the switch of POST has a case for.
DispatchedTypes == {CHECKOUT, SUB_DELETED, SUB_UPDATED}

\* C31: a delivery of a verified event whose type the switch has no case for
\* (invoice.paid, customer.subscription.created) runs no handler: it makes no
\* provisioning call and no Customer or Subscription write, goes from the
\* processing update straight to the success update of the ledger row, and
\* unless one of its ledger writes meets a store failure the row ends as
\* success and the answer is 200 with received: true.
C31_UnhandledTypeIsAcknowledged ==
    \A d \in Deliveries :
        LET f == req[d] IN
        ( /\ f.signature = "valid"
          /\ f.event.type \notin DispatchedTypes ) =>
            /\ NoEffects(f)
            /\ f.customer = NoRow
            /\ f.subscription = NoRow
            /\ f.pc \in {"exists", "log", "processing", "success", "handle_error", "done"}
            /\ f.pc = "handle_error" => f.err \in InjectedErrors
            /\ f.dispatched =>
                  /\ f.attempt = 1
                  /\ f.pc \in {"success", "handle_error", "done"}
                  /\ f.pc = "done" =>
                        \/ /\ f.response.code = 200
                           /\ f.response.received
                           /\ f.err = NoError
                           /\ Cardinality(LedgerRows(f.event.id)) = 1
                           /\ \A i \in LedgerRows(f.event.id) : webhook_logs[i].status = "success"
                        \/ /\ f.response.stage \in {"handler", "handle_error"}
                           /\ f.err.message \in {e.message : e \in InjectedErrors}
                           /\ faults >= 1
            /\ (f.pc = "done" /\ f.dispatched /\ faults = 0) => f.response.code = 200

\* Both deliveries carried an event without a handler, an invoice.paid and a
\* customer.subscription.created, on the store of an earlier checkout; both
\* were answered 200 and both ledger rows are success.
C31_Witness ==
    /\ req["d1"].event.type = "invoice.paid"
    /\ req["d2"].event.type = SUB_CREATED
    /\ req["d1"].pc = "done" /\ req["d2"].pc = "done"
    /\ req["d1"].dispatched /\ req["d2"].dispatched
    /\ req["d1"].response.code = 200 /\ req["d2"].response.code = 200
    /\ Len(webhook_logs) = 2
    /\ \A i \in 1..2 : webhook_logs[i].status = "success"
    /\ Len(subscriptions) = 1
    /\ subscriptions[1].status = "active"

\* C32 (as stated): a delivery of a customer.subscription.created event that
\* was processed for a Subscription the store holds has resolved the target
\* status per the mapping table and written the internal status to it, as a
\* customer.subscription.updated event does.
C32_CreatedEventPersistsTarget ==
    \A d \in Deliveries :
        LET f == req[d] IN
        ( /\ f.event.type = SUB_CREATED
          /\ f.dispatched
          /\ HandlerReturned(f)
          /\ \A o \in Deliveries : req[o].event.type /= CHECKOUT
          /\ SubscriptionRowsOf(f.event.subscription) /= {} ) =>
            /\ f.written = TableTarget(f.event.status)
            /\ f.effects["db.updateSubscriptionStatus"] >= 1

\* C32 (amended): only customer.subscription.updated runs the event-driven
\* update: a delivery of it that finds the Subscription and runs to the end
\* has written the internal status to the target of the mapping table; a
\* delivery of a customer.subscription.created event never looks the
\* Subscription up, resolves no target, calls no provisioning action and
\* writes no internal status, and is acknowledged like any event without a
\* handler.
C32_OnlyUpdatedEventRunsTheUpdate ==
    \A d \in Deliveries :
        LET f == req[d] IN
        /\ (f.event.type = SUB_CREATED /\ f.signature = "valid") =>
              /\ f.subscription = NoRow
              /\ f.newStatus = "none"
              /\ f.action = "none"
              /\ f.written = "none"
              /\ f.effects["enhance.action"] = 0
              /\ f.effects["db.updateSubscriptionStatus"] = 0
              /\ f.pc \notin {"upd_find", "upd_action", "upd_update"}
              /\ (f.pc = "done" /\ f.dispatched /\ f.err = NoError) => f.response.code = 200
        /\ (f.event.type = SUB_UPDATED /\ f.subscription.id /= 0 /\ HandlerReturned(f)) =>
              /\ f.newStatus = TableTarget(f.event.status)
              /\ f.written = TableTarget(f.event.status)
              /\ f.effects["db.updateSubscriptionStatus"] >= 1

\* On the store of an earlier checkout, a customer.subscription.created event
\* with status past_due was acknowledged and the subscription is still active;
\* the other delivery has not started.
C32_Witness ==
    /\ req["d1"].event.type = SUB_CREATED
    /\ req["d1"].event.status = "past_due"
    /\ req["d1"].dispatched
    /\ req["d1"].pc = "done"
    /\ req["d1"].response.code = 200
    /\ req["d2"].pc = "idle"
    /\ Len(subscriptions) = 1
    /\ subscriptions[1].stripe_subscription_id = "sub_1"
    /\ subscriptions[1].status = "active"
    /\ enhance.subscriptions[1].status = "active"

----------------------------------------------------------------------------
\* Which subscriptions the sweep touches (SpecSweep).

\* The rows of the store the sweep's list does not hold.
NotListed == {i \in 1..Len(subscriptions) : \A k \in 1..Len(sync.list) : sync.list[k].id /= subscriptions[i].id}

\* C33: the list syncAllSubscriptions works on holds exactly the subscriptions
\* whose internal status was active or suspended when it was read; a
\* subscription that was canceled then is not in the list, is never handed to
\* syncSingleSubscription, and no step of the sweep changes its row or its
\* provisioning subscription.
C33_SweepSkipsCanceled ==
    /\ [](sync.sweep \in {"loop", "returned"} /\ sync.index > 0 =>
            /\ \A k \in 1..Len(sync.list) : sync.list[k].status \in {"active", "suspended"}
            /\ \A k, l \in 1..Len(sync.list) : sync.list[k].id = sync.list[l].id => k = l
            /\ \A k \in 1..Len(sync.list) : \E i \in 1..Len(subscriptions) :
                  subscriptions[i].id = sync.list[k].id
            /\ \A i \in NotListed :
                  /\ subscriptions[i].status = "canceled"
                  /\ \A k \in 1..Len(sync.attempted) :
                        sync.attempted[k] /= subscriptions[i].stripe_subscription_id
                  /\ sync.pc /= "off" =>
                        sync.stripeSubscriptionId /= subscriptions[i].stripe_subscription_id)
    /\ [][\A i \in 1..Len(subscriptions) :
              subscriptions[i].status = "canceled" /\ sync.dbSubscription.id /= subscriptions[i].id =>
                  /\ subscriptions'[i] = subscriptions[i]
                  /\ enhance'.subscriptions[subscriptions[i].enhance_subscription_id] =
                        enhance.subscriptions[subscriptions[i].enhance_subscription_id]]_vars

\* Of two subscriptions the older was canceled and the newer active; the sweep
\* has returned after syncing the newer one only.
C33_Witness ==
    /\ sync.sweep = "returned"
    /\ Len(subscriptions) = 2
    /\ Len(sync.list) = 1
    /\ sync.list[1].stripe_subscription_id = "sub_2"
    /\ sync.attempted = <<"sub_2">>
    /\ sync.syncedCount = 1
    /\ subscriptions[1].status = "canceled"
    /\ sync.written /= "none"

----------------------------------------------------------------------------
\* Two sweeps in a row (SpecResume).

\* The subscriptions either sweep has handed to syncSingleSubscription.
SweptBySweeps == sync.first.swept \cup {sync.attempted[k] : k \in 1..Len(sync.attempted)}

\* Row i of subscriptions and its provisioning subscription are both in the
\* status the table gives for the payments status the provider answers.
AtTarget(i) ==
    LET target == TableTarget(StripeStatusOf(sync.stripe, subscriptions[i].stripe_subscription_id))
    IN /\ subscriptions[i].status = target
       /\ enhance.subscriptions[subscriptions[i].enhance_subscription_id].status = target

\* C34: when a sweep was cut off at any of its awaits (between two items, or
\* between the provisioning call and the internal write of one item) and a
\* later sweep, with the payments statuses unchanged, runs to its end without
\* an error, every subscription either sweep worked on whose payments status
\* is one of the table's has its provisioning status and its internal status
\* at the target: the state an uninterrupted sweep leaves.
C34_InterruptedSweepIsResumable ==
    ( /\ sync.round = 2
      /\ sync.first.ended = "interrupted"
      /\ sync.sweep = "returned"
      /\ sync.success ) =>
        \A i \in 1..Len(subscriptions) :
            LET id == subscriptions[i].stripe_subscription_id
                status == StripeStatusOf(sync.stripe, id)
            IN id \in SweptBySweeps =>
                  /\ status /= "none"
                  /\ TableTarget(status) /= "none" => AtTarget(i)

\* The first sweep was cut off after it had suspended the provisioning
\* subscription of sub_1 and before the internal write; the second sweep made
\* no provisioning call for it and wrote the internal status.
C34_Witness ==
    /\ sync.round = 2
    /\ sync.first.ended = "interrupted"
    /\ sync.first.cut = "write"
    /\ sync.first.action = "suspend"
    /\ sync.sweep = "returned"
    /\ sync.success
    /\ Len(subscriptions) = 1
    /\ sync.action = "none"
    /\ sync.written = "suspended"
    /\ subscriptions[1].status = "suspended"
    /\ enhance.subscriptions[1].status = "suspended"

\* C40: after a sweep that returned with every item synced, the sweep that
\* follows it, with the payments statuses unchanged, invokes no provisioning
\* action and writes no internal status for any item: no step of it changes
\* the store or the provisioning system.
C40_SweepIsIdempotent ==
    /\ [](( /\ sync.round = 2
            /\ sync.first.ended = "returned"
            /\ sync.first.success ) =>
              /\ sync.action = "none"
              /\ sync.written = "none"
              /\ sync.pc = "write" => sync.dbSubscription.status = sync.targetStatus
              /\ sync.pc = "converge" => sync.enhanceStatus = sync.targetStatus)
    /\ [][( /\ sync.round = 2
            /\ sync.first.ended = "returned"
            /\ sync.first.success ) =>
              UNCHANGED <<customers, subscriptions, enhance>>]_vars

\* The first sweep synced sub_2 and sub_1, suspending sub_1 for its past_due
\* payments status; the second sweep has gone through both again and returned.
C40_Witness ==
    /\ sync.round = 2
    /\ sync.first.ended = "returned"
    /\ sync.first.success
    /\ sync.first.swept = {"sub_1", "sub_2"}
    /\ sync.sweep = "returned"
    /\ sync.attempted = <<"sub_2", "sub_1">>
    /\ sync.syncedCount = 2
    /\ StripeStatusOf(sync.stripe, "sub_1") = "past_due"
    /\ StripeStatusOf(sync.stripe, "sub_2") = "active"
    /\ subscriptions[1].status = "suspended"
    /\ enhance.subscriptions[1].status = "suspended"

----------------------------------------------------------------------------
\* The critical alert (SpecAlert).

\* C35: categorizeError gives an error that carries no classification of its
\* own a severity of low, medium or high, never critical; handleWebhookError
\* therefore sends the critical alert only for an error that reached it as an
\* AppError of severity critical, and for such an error it does send it once
\* the ledger row was set to error.
C35_AlertOnlyForPreClassifiedCritical ==
    \A d \in Deliveries :
        LET f == req[d] IN
        /\ f.alerts \in {0, 1}
        /\ f.alerts = 1 =>
              /\ f.handled.app
              /\ f.handled.severity = "critical"
              /\ f.response.stage = "handler"
        /\ (f.handled /= NoError /\ ~f.handled.app) =>
              /\ f.alerts = 0
              /\ categorizeError(f.handled).severity \in {"low", "medium", "high"}
              /\ f.response.stage = "handler" => f.err = categorizeError(f.handled)
        /\ (f.response.stage = "handler" /\ f.handled.app /\ f.handled.severity = "critical") =>
              f.alerts = 1

\* A plain error whose message names the database was classified high and
\* left the ledger row in error without an alert.
C35_Witness ==
    /\ req["d1"].handled = PlainError({"database"})
    /\ req["d1"].response.stage = "handler"
    /\ req["d1"].err.severity = "high"
    /\ req["d1"].alerts = 0
    /\ webhook_logs[1].status = "error"

----------------------------------------------------------------------------
\* The provisioning id of a Subscription row (SpecFrame).

\* C36: no step of a handler, of syncSingleSubscription, of the sweep or of
\* changePlan removes a Subscription row or changes the provisioning
\* subscription id (or the key) of a row that exists; the status and plan
\* updates leave that column alone.
C36_ProvisioningIdIsImmutable ==
    [][/\ Len(subscriptions') >= Len(subscriptions)
       /\ \A i \in 1..Len(subscriptions) :
             /\ subscriptions'[i].id = subscriptions[i].id
             /\ subscriptions'[i].enhance_subscription_id = subscriptions[i].enhance_subscription_id
             /\ subscriptions'[i].stripe_subscription_id = subscriptions[i].stripe_subscription_id]_vars

\* The row of sub_1 has had its status written by the subscription-updated
\* handler and its plan by changePlan, and still names provisioning
\* subscription 1.
C36_Witness ==
    /\ req["d1"].event.type = SUB_UPDATED
    /\ req["d1"].written = "suspended"
    /\ sync.pc = "done"
    /\ sync.written = "basic-hosting-plan"
    /\ Len(subscriptions) = 1
    /\ subscriptions[1].status = "suspended"
    /\ subscriptions[1].enhance_plan_id = "basic-hosting-plan"
    /\ subscriptions[1].enhance_subscription_id = 1

----------------------------------------------------------------------------
\* The ledger row at the time of the response (Spec).

\* C37: when a delivery that inserted the ledger row of its event has
\* returned its response, the row is in success or error, not in received or
\* processing.
C37_RowSettledBeforeResponse ==
    \A d \in Deliveries :
        (req[d].pc = "done" /\ req[d].inserted) =>
            \A i \in LedgerRows(req[d].event.id) :
                webhook_logs[i].status \in {"success", "error"}

----------------------------------------------------------------------------
\* Provisioning resources and the rows that reference them (Spec).

\* C38: once every delivery has returned, every provisioning customer is
\* referenced by a Customer row and every provisioning subscription by a
\* Subscription row: a checkout handler that finished, by success or by
\* failure, has left no provisioning resource without its internal row.
C38_NoOrphanedProvisioningResources ==
    (\A d \in Deliveries : req[d].pc \in {"idle", "done"}) =>
        /\ \A c \in 1..enhance.customers :
              \E i \in 1..Len(customers) : customers[i].enhance_customer_id = c
        /\ \A k \in 1..Len(enhance.subscriptions) :
              \E i \in 1..Len(subscriptions) : subscriptions[i].enhance_subscription_id = k

----------------------------------------------------------------------------
\* Concurrent updates of one subscription (SpecRace).

\* C39: when two subscription-updated events with different ids for the same
\* subscription were processed concurrently and both handlers have run to the
\* end, the internal status agrees with the action last applied to the
\* provisioning system: it is active iff the provisioning subscription, last
\* reactivated or suspended by one of the two, is active.
C39_ConcurrentUpdatesAgree ==
    ( /\ req["d1"].event.id /= req["d2"].event.id
      /\ \A d \in Deliveries :
            /\ req[d].pc = "done"
            /\ req[d].response.code = 200
            /\ req[d].action /= "none"
            /\ req[d].written /= "none" ) =>
        (subscriptions[1].status = "active" <=> enhance.subscriptions[1].status = "active")

====
